---- MODULE Spec2Model ----
(***************************************************************************)
(* A model of a2jmidi's ALSA receiver queue (src/src/alsa_receiver_queue.cpp)*)
(* and of the thin alsaClient wrapper around it (src/src/alsa_client.cpp).  *)
(*                                                                         *)
(* The queue is a chain of std::future<AlsaEventPtr>: every listener task  *)
(* (std::async) waits for sequencer events, spawns its successor, packs    *)
(* the events into an AlsaEventBatch that owns the successor's future and  *)
(* returns it.  process() walks the chain from g_queueHead.                *)
(*                                                                         *)
(* Threads of the model: the control thread (start/stop), the real-time    *)
(* thread (process), the listener tasks, a sender that feeds the           *)
(* sequencer FIFO, and the clock.                                          *)
(***************************************************************************)
EXTENDS Integers, Sequences, FiniteSets, TLC

\* ---------------------------------------------------------------- bounds
\* number of events the sender puts into the sequencer FIFO
MaxEvents == 2
\* largest value of the clock (sysClock::now() counts from 0)
MaxTime == 2
\* number of start() calls of the control thread
MaxStarts == 2

\* every start() and every batch spawns exactly one listener task
MaxTasks == MaxEvents + MaxStarts
Tasks == 1..MaxTasks
Events == 1..MaxEvents
Deadlines == 0..(MaxTime + 1)

VARIABLES
  g_carryOnFlag,            \* std::atomic<bool>, false: listeners shut down
  g_stateFlag,              \* State::stopped / State::running
  g_currentEventBatchCount, \* number of AlsaEventBatch objects alive
  g_queueHead,              \* FutureAlsaEvents, the head of the chain
  g_queueAccessMutex,       \* owner of the mutex: "free", "ctl" or "rt"
  fifo,                     \* the sequencer's input FIFO (event ids)
  sent,                     \* number of events sent so far
  now,                      \* sysClock::now()
  task,                     \* the listener tasks (std::async shared states)
  batch,                    \* the AlsaEventBatch objects, batch t is made by task t
  nextTask,                 \* id of the next task to be spawned
  ctl,                      \* the control thread
  rt,                       \* the real-time thread
  delivered,                \* history: the invocations of the closure
  readLog,                  \* history: events of a batch in the order they were read
  everStopped,              \* history: stopInternal() has run
  alsaClient_g_stateFlag,   \* alsaClient: State::closed / idle / running
  g_stateAccessMutex,       \* owner of alsaClient's mutex: "free", "ctl" or "rt"
  timed,                    \* stopInternal() and one listener, with their durations
  jack,                     \* jackClient: the JACK server's frame clock and the process callback
  conv,                     \* jackClient::impl: a conversion between frames and durations
  jc,                       \* jackClient: its state, its callers, the server and a JackClock
  ac,                       \* alsaClient: its state, its receiver port and the connection monitor
  br,                       \* a2jmidi: the start-up sequence of the bridge
  mon,                      \* alsaClient: the monitor threads beside activate(), stop(), close()
  jm,                       \* jackClient: its state and its mutex beside alsaClient and the queue
  port                      \* a2jmidi: the sender port's buffer in the current cycle

vars == <<g_carryOnFlag, g_stateFlag, g_currentEventBatchCount, g_queueHead,
          g_queueAccessMutex, fifo, sent, now, task, batch, nextTask, ctl, rt,
          delivered, readLog, everStopped, alsaClient_g_stateFlag,
          g_stateAccessMutex, timed, jack, conv, jc, ac, br, mon, jm, port>>

\* the variables of the views that stand beside the queue
auxVars == <<timed, jack, conv, jc, ac, br, mon, jm, port>>

\* the views other than the sender port's buffer
notPort == <<timed, jack, conv, jc, ac, br, mon, jm>>

\* the variables of the alsaClient wrapper
clientVars == <<alsaClient_g_stateFlag, g_stateAccessMutex>>

\* ---------------------------------------------------------------- futures
\* A FutureAlsaEvents is invalid (default constructed or moved from), the
\* result of a std::async listener task, or the future of a promise that
\* was fulfilled at once with a batch (the "repacked" batch).
InvalidFuture == [kind |-> "invalid", id |-> 0]
AsyncFuture(t) == [kind |-> "async", id |-> t]

\* std::promise::set_value(std::move(alsaEvents)); get_future()
RepackDropsBatch(b) == batch[b].m_next
Repack(b) == [kind |-> "ready", id |-> b]

NoBatch == [alive |-> FALSE, m_eventList |-> <<>>, m_timeStamp |-> 0,
            m_next |-> InvalidFuture]

\* the task behind a future has finished: by a value or by an exception
TaskResolved(t) == task[t].pc \in {"done", "interrupted", "failed"}

\* std::future::valid()
valid(f) == f.kind # "invalid"

\* isReady(): valid and wait_for(0) == ready
isReadyAnyValid(f) == valid(f)
isReady(f) ==
  IF ~valid(f) THEN FALSE
  ELSE IF f.kind = "ready" THEN TRUE
  ELSE TaskResolved(f.id)

\* AlsaEventBatch::grabNext(): std::move(m_next)
grabNextOfMovedFrom(b) == InvalidFuture
grabNext(b) == batch[b].m_next

\* std::unique_lock<std::mutex> lock{g_queueAccessMutex}: the thread owns the mutex
unique_lock_deferred(thread) == "free"
unique_lock(thread) == thread

\* the comparison that decides whether a batch is handed back
NotYetDueStrict(timestamp, deadline) == timestamp > deadline
NotYetDueIgnored(timestamp, deadline) == FALSE
NotYetDue(timestamp, deadline) == timestamp >= deadline

\* std::forward_list::push_front
push_front(list, e) == <<e>> \o list

\* retrieveEvents(): read the FIFO until it is empty, push_front each event
RECURSIVE retrieveEventsFrom(_, _)
retrieveEventsFrom(q, eventList) ==
  IF q = <<>> THEN eventList
  ELSE retrieveEventsFrom(Tail(q), push_front(eventList, Head(q)))
retrieveEvents(q) == retrieveEventsFrom(q, <<>>)

\* the resolved batches reachable from a future, in chain order
RECURSIVE ChainFrom(_)
ChainFrom(f) ==
  IF f.kind = "ready" \/ (f.kind = "async" /\ task[f.id].pc = "done")
  THEN <<f.id>> \o ChainFrom(batch[f.id].m_next)
  ELSE <<>>

\* the batches destroyed when a future is released: the batch it holds,
\* and, as ~AlsaEventBatch releases m_next, the batches after it
ReleasedHeadOnly(f) == IF ChainFrom(f) = <<>> THEN <<>> ELSE <<Head(ChainFrom(f))>>
ReleasedBatches(f) == ChainFrom(f)

\* the future at the end of the chain that starts at a future
RECURSIVE TailFrom(_)
TailFrom(f) ==
  IF f.kind = "ready" \/ (f.kind = "async" /\ task[f.id].pc = "done")
  THEN TailFrom(batch[f.id].m_next)
  ELSE f

\* the tasks whose shared state is owned, directly or not, by a future
RECURSIVE OwnedTasks(_)
OwnedTasks(f) ==
  IF f.kind = "ready" THEN OwnedTasks(batch[f.id].m_next)
  ELSE IF f.kind = "async"
       THEN {f.id} \cup (IF task[f.id].pc = "done"
                         THEN OwnedTasks(batch[f.id].m_next)
                         ELSE IF task[f.id].m_nextFuture # 0
                              THEN OwnedTasks(AsyncFuture(task[f.id].m_nextFuture))
                              ELSE {})
       ELSE {}

\* releasing the shared state of a std::async future waits for its task:
\* the futures a future owns can be destroyed once their tasks have ended
ReleaseWithoutJoin(f) == TRUE
ReleaseJoins(f) == \A t \in OwnedTasks(f) : TaskResolved(t)

Range(s) == {s[i] : i \in 1..Len(s)}

\* stopInternal() beside one listener that finds nothing to read, with the
\* time they take, in ms.  The queue runs; the listener is in poll().
SHUTDOWN_POLL_PERIOD_MS == 10
\* the time stopInternal() sleeps: 2 * SHUTDOWN_POLL_PERIOD_MS
SleepOnePeriod(period) == period
SleepTime(period) == 2 * period
TimedInit == [pc |-> "running", g_carryOnFlag |-> TRUE, g_stateFlag |-> "running",
              listener |-> "poll", pollLeft |-> SHUTDOWN_POLL_PERIOD_MS,
              sleepLeft |-> 0, elapsed |-> 0, late |-> 0]

\* jackClient: the frames of a cycle (nFrames), the last frame time the
\* server is followed to, and the most cycles it skips at once
CycleLength == 2
MaxFrameTime == 16
MaxSkip == 3

\* jackClient before the first cycle.  frameTime is jack_last_frame_time(),
\* now is jack_frame_time(); deadLine is what the process callback was
\* given, lastDeadline what it was given the time before; g_resetTimingCount
\* is the counter that jack_client.h declares; steady tells that every cycle
\* so far began one cycle length after the one before.
JackInit == [pc |-> "waiting", frameTime |-> 0, now |-> 0, deadLine |-> 0,
             lastDeadline |-> 0, calls |-> 0, g_resetTimingCount |-> 0,
             resetsBefore |-> 0, steady |-> TRUE]

\* sysClock::TICKS_PER_SECOND: the ticks (ns) of SysTimeUnits in a second
TICKS_PER_SECOND == 1000000000

\* jackClient::impl::sampleRate(): rates a JACK server runs at
SampleRates == {22050, 44100, 48000}

\* the largest number of frames converted, besides sampleRate() itself
MaxFrames == 40

\* floor and remainder of a * b / c, computed without leaving 32 bits
\* (c < 2^30): a * b = div * c + mod
RECURSIVE MulDivMod(_, _, _)
MulDivMod(a, b, c) ==
  IF b = 0 THEN [div |-> 0, mod |-> 0]
  ELSE LET h == MulDivMod(a, b \div 2, c)
           d2 == 2 * h.div + ((2 * h.mod) \div c)
           m2 == (2 * h.mod) % c
       IN IF b % 2 = 0 THEN [div |-> d2, mod |-> m2]
          ELSE [div |-> d2 + (a \div c) + ((m2 + (a % c)) \div c),
                mod |-> (m2 + (a % c)) % c]

\* (long)std::round(x) for x = q.div + q.mod / c >= 0: halves go up
roundTruncated(q, c) == q.div
round(q, c) == IF 2 * q.mod >= c THEN q.div + 1 ELSE q.div

\* frames2duration(): (long)std::round(frames * TICKS_PER_SECOND / (double)sampleRate())
frames2durationTruncated(frames, sampleRate) ==
  roundTruncated(MulDivMod(TICKS_PER_SECOND, frames, sampleRate), sampleRate)
frames2duration(frames, sampleRate) ==
  round(MulDivMod(TICKS_PER_SECOND, frames, sampleRate), sampleRate)

\* duration2frames(): ((double)(sampleRate() * duration.count())) / (double)TICKS_PER_SECOND,
\* a double that is not rounded: whole + part / TICKS_PER_SECOND frames
duration2frames(duration, sampleRate) ==
  LET q == MulDivMod(sampleRate, duration, TICKS_PER_SECOND)
  IN [whole |-> q.div, part |-> q.mod]

\* no conversion made yet
ConvInit == [pc |-> "none", sampleRate |-> 0, frames |-> 0, duration |-> 0,
             back |-> [whole |-> 0, part |-> 0]]

\* jackClient: how often the JACK server goes down, and the last frame
\* time a JackClock is followed to
MaxDowns == 2
MaxClockTime == 2

\* what JackClock::now() returns: a frame time, or LONG_MAX
FrameTime(t) == [kind |-> "frames", t |-> t]
LONG_MAX == [kind |-> "LONG_MAX", t |-> 0]
\* a <= b for such values
TimeLE(a, b) == b.kind = "LONG_MAX" \/ (a.kind = "frames" /\ a.t <= b.t)

\* jackClient after static initialization, the JACK server running.
\* g_stateFlag, g_jackClientHandle, g_customCallback, g_onServerAbendHandler
\* are the module's variables (the handle "null" or "client", clientOpen
\* telling whether jack_client_close() was not yet called on it; the two
\* std::function objects empty or not).  pc, op, from and result are the
\* caller's: the step of stop()/close() it is at (it then owns
\* g_stateAccessMutex), the call made last, the state it was made in and
\* how it ended.  sd is the step of jackShutdownCallback() on the server's
\* thread, abend the number of runs of the handler, crashed whether a thread
\* was started on an empty std::function.  atDown, flagAtDown and wasRunning
\* record the caller's step, g_stateFlag, and whether the client ran with a
\* handler, when the server went down.  hasClock, now and prev belong to a JackClock and the values
\* it returned last; frameTime is jack_frame_time().
JcInit == [g_stateFlag |-> "closed", g_jackClientHandle |-> "null", clientOpen |-> FALSE,
           g_customCallback |-> FALSE, g_onServerAbendHandler |-> FALSE,
           pc |-> "idle", op |-> "none", from |-> "closed", result |-> "none",
           server |-> "up", downs |-> 0,
           sd |-> "none", abend |-> 0, crashed |-> FALSE,
           atDown |-> "none", flagAtDown |-> "closed", wasRunning |-> FALSE,
           hasClock |-> FALSE, now |-> FrameTime(0), prev |-> FrameTime(0),
           reads |-> 0, frameTime |-> 0]

\* ---------------------------------------------------------------- alsaClient, the session
\* the null value of port and client numbers
NULL_ID == -1
\* "no port": the PortID with both numbers NULL_ID
NULL_PORT_ID == "NULL_PORT_ID"
\* the sender ports of the other clients of the sequencer
SenderPorts == {"Midi Through Port-0"}
\* what a caller may pass as connectTo: nothing, a sender port, a name no port has
Designations == {""} \cup SenderPorts \cup {"no such port"}

\* alsaClient's globals, the last call (op, the state it was made from, the
\* connectTo and clock it was given, its result; call flips with every call),
\* the connections of the receiver port as the sequencer holds them, what
\* receiverPortGetConnections() returned last, and the monitor thread's local
\* currentlyConnected.  ports counts the ports made since the last open().
AcInit == [g_stateFlag |-> "closed", g_portId |-> NULL_ID, g_connectTo |-> "",
           g_onMonitorConnectionsHandler |-> FALSE, g_monitoringActive |-> FALSE,
           currentlyConnected |-> NULL_PORT_ID, connections |-> {},
           op |-> "none", from |-> "closed", connectTo |-> "", clock |-> FALSE,
           result |-> "none", call |-> 0, listed |-> {}, ports |-> 0]

\* ---------------------------------------------------------------- a2jmidi, the bridge
\* the process callbacks the JACK server makes in one run
MaxCallbacks == 2

\* run(): its arguments and whether a JACK server is up, where it stands
\* (step: the call of open() to be made next), the states of the two clients
\* and what open() has given them so far, the call that threw and what it
\* threw, the process callbacks made so far
BrInit == [phase |-> "main", step |-> 1,
           connectTo |-> "", startJack |-> FALSE, serverRunning |-> FALSE,
           jackState |-> "closed", g_onServerAbendHandler |-> FALSE,
           jackPort |-> FALSE, g_customCallback |-> FALSE,
           alsaState |-> "closed", g_portId |-> NULL_ID, clock |-> FALSE,
           failedAt |-> "none", exception |-> "none",
           g_continue |-> TRUE, callbacks |-> 0]

\* ---------------------------------------------------------------- alsaClient, the monitor threads
\* the monitor threads started in one run
MaxMonitors == 2
Monitors == 1..MaxMonitors

\* a monitor thread: where it is in monitorLoop() ("test": at
\* `while (g_monitoringActive)`, "handler": calling the handler, "sleep": in
\* sleep_for(MONITOR_INTERVAL)); told: stopConnectionMonitoring() was called
\* since it started; resumed: it found the flag set again after that
NoMonitor == [pc |-> "unborn", told |-> FALSE, resumed |-> FALSE]

\* alsaClient's globals, the caller (pc: "idle" or inside close()), the
\* monitor threads and how many were started.  late: the handler was
\* invoked when no activate() stood; undefined: the handler used a
\* sequencer handle that was closed.
MonInit == [g_stateFlag |-> "closed", g_portId |-> NULL_ID, g_sequencerHandle |-> "null",
            g_connectTo |-> "", g_onMonitorConnectionsHandler |-> FALSE,
            g_monitoringActive |-> FALSE, pc |-> "idle",
            thread |-> [m \in Monitors |-> NoMonitor], started |-> 0,
            late |-> FALSE, undefined |-> FALSE]

\* jackClient as the main thread and the JACK server see it: closed, no
\* call of the main thread under way
JmInit == [g_stateFlag |-> "closed", g_stateAccessMutex |-> "free"]

\* the number of frames of a cycle
MaxNFrames == 2
NFrames == 1..MaxNFrames

\* the sender port's buffer: no cycle has begun (nFrames = 0), nothing written
PortInit == [nFrames |-> 0, events |-> <<>>]

\* ---------------------------------------------------------------- Init
NoTask == [pc |-> "unborn", events |-> <<>>, m_nextFuture |-> 0, alsaResult |-> 0]

Init ==
  /\ g_carryOnFlag = FALSE
  /\ g_stateFlag = "stopped"
  /\ g_currentEventBatchCount = 0
  /\ g_queueHead = InvalidFuture
  /\ g_queueAccessMutex = "free"
  /\ fifo = <<>>
  /\ sent = 0
  /\ now = 0
  /\ task = [t \in Tasks |-> NoTask]
  /\ batch = [t \in Tasks |-> NoBatch]
  /\ nextTask = 1
  /\ ctl = [pc |-> "idle", op |-> "none", result |-> "none", starts |-> 0]
  /\ rt = [pc |-> "idle", deadline |-> 0, queueHeadInternal |-> InvalidFuture,
           n0 |-> 0, chain0 |-> <<>>, exit |-> "none", op |-> "none", err |-> 0,
           fail |-> 0]
  /\ delivered = <<>>
  /\ readLog = [t \in Tasks |-> <<>>]
  /\ everStopped = FALSE
  /\ alsaClient_g_stateFlag = "closed"
  /\ g_stateAccessMutex = "free"
  /\ timed = TimedInit
  /\ jack = JackInit
  /\ conv = ConvInit
  /\ jc = JcInit
  /\ ac = AcInit
  /\ br = BrInit
  /\ mon = MonInit
  /\ jm = JmInit
  /\ port = PortInit

\* ---------------------------------------------------------------- environment
\* another client writes an event to our port
Send ==
  /\ sent < MaxEvents
  /\ sent' = sent + 1
  /\ fifo' = Append(fifo, sent + 1)
  /\ UNCHANGED <<g_carryOnFlag, g_stateFlag, g_currentEventBatchCount, g_queueHead,
                 g_queueAccessMutex, now, task, batch, nextTask, ctl, rt,
                 delivered, readLog, everStopped>>
  /\ UNCHANGED <<clientVars, auxVars>>

\* the steady clock advances
Tick ==
  /\ now < MaxTime
  /\ now' = now + 1
  /\ UNCHANGED <<g_carryOnFlag, g_stateFlag, g_currentEventBatchCount, g_queueHead,
                 g_queueAccessMutex, fifo, sent, task, batch, nextTask, ctl, rt,
                 delivered, readLog, everStopped>>
  /\ UNCHANGED <<clientVars, auxVars>>

\* ---------------------------------------------------------------- listener
\* startNextFuture(): std::async(std::launch::async, listenForEvents)
startNextFutureDeferred(tasks, t) == tasks
startNextFuture(tasks, t) == [tasks EXCEPT ![t] = [pc |-> "listening", events |-> <<>>,
                                                   m_nextFuture |-> 0,
                                                   alsaResult |-> 0]]

\* listenForEvents(): `FutureAlsaEvents nextFuture = startNextFuture(hSequencer)`
\* is executed ahead of `new AlsaEventBatch(...)` and of the return
prefetchAfterReturn(tasks, t) == tasks
prefetch(tasks, t) == startNextFuture(tasks, t)

\* listenForEvents(): the condition of `while (g_carryOnFlag)`, read again
\* after every poll(), which returns after SHUTDOWN_POLL_PERIOD_MS at most
WhileForever(flag) == TRUE
WhileCarryOn(flag) == flag

\* listenForEvents(): one turn of `while (g_carryOnFlag)`.  With the flag
\* false the task ends on an InterruptedException.  Otherwise poll() waits
\* for events (a timeout repeats the turn); when it reports events and the
\* flag is still set, retrieveEvents() empties the FIFO and the successor is
\* started: nextFuture = startNextFuture(hSequencer)
ListenLoop(t) ==
  /\ task[t].pc = "listening"
  /\ IF ~WhileCarryOn(g_carryOnFlag)
     THEN /\ task' = [task EXCEPT ![t].pc = "interrupted"]
          /\ UNCHANGED <<fifo, readLog, nextTask>>
     ELSE /\ fifo # <<>>
          /\ nextTask \in Tasks
          /\ task' = [prefetch(task, nextTask) EXCEPT
                        ![t].pc = "stamp",
                        ![t].events = retrieveEvents(fifo),
                        ![t].m_nextFuture = nextTask]
          /\ nextTask' = nextTask + 1
          /\ readLog' = [readLog EXCEPT ![t] = fifo]
          /\ fifo' = <<>>
  /\ UNCHANGED <<g_carryOnFlag, g_stateFlag, g_currentEventBatchCount, g_queueHead,
                 g_queueAccessMutex, sent, now, batch, ctl, rt,
                 delivered, everStopped>>
  /\ UNCHANGED <<clientVars, auxVars>>

\* checkAlsa(): a negative result of an ALSA call throws std::runtime_error
checkAlsaIgnores(alsaResult) == FALSE
checkAlsa(alsaResult) == alsaResult < 0

\* results of ALSA calls that are errors: -ENOSPC (the FIFO overran), -ENODEV
AlsaErrors == {-28, -19}

\* listenForEvents(): an ALSA call gives the result r.  It is
\* snd_seq_poll_descriptors_count() ahead of the loop or
\* snd_seq_poll_descriptors() in it (k = 0), or snd_seq_event_input() in
\* retrieveEvents() after k events were read into the local eventList.
\* When checkAlsa() throws, the exception ends the task and resolves its
\* future; the events read are lost with eventList.
ListenError(t, r, k) ==
  /\ task[t].pc = "listening"
  /\ k \in 0..Len(fifo)
  /\ k > 0 => WhileCarryOn(g_carryOnFlag)
  /\ task' = [task EXCEPT ![t].alsaResult = r,
                          ![t].pc = IF checkAlsa(r) THEN "failed" ELSE @]
  /\ fifo' = SubSeq(fifo, k + 1, Len(fifo))
  /\ readLog' = [readLog EXCEPT ![t] = SubSeq(fifo, 1, k)]
  /\ UNCHANGED <<g_carryOnFlag, g_stateFlag, g_currentEventBatchCount, g_queueHead,
                 g_queueAccessMutex, sent, now, batch, nextTask, ctl, rt,
                 delivered, everStopped>>
  /\ UNCHANGED <<clientVars, auxVars>>

\* listenForEvents(): new AlsaEventBatch(nextFuture, events, sysClock::now())
\* and the return that makes the task's future ready
ListenReturn(t) ==
  /\ task[t].pc = "stamp"
  /\ batch' = [batch EXCEPT ![t] = [alive |-> TRUE,
                                    m_eventList |-> task[t].events,
                                    m_timeStamp |-> now,
                                    m_next |-> AsyncFuture(task[t].m_nextFuture)]]
  /\ g_currentEventBatchCount' = g_currentEventBatchCount + 1
  /\ task' = [task EXCEPT ![t].pc = "done"]
  /\ UNCHANGED <<g_carryOnFlag, g_stateFlag, g_queueHead,
                 g_queueAccessMutex, fifo, sent, now, nextTask, ctl, rt,
                 delivered, readLog, everStopped>>
  /\ UNCHANGED <<clientVars, auxVars>>

\* ---------------------------------------------------------------- control thread
\* start() on a stopped queue: lock, startInternal(), store the head, unlock
Start ==
  /\ ctl.pc = "idle"
  /\ ctl.starts < MaxStarts
  /\ g_queueAccessMutex = "free"
  /\ g_stateFlag = "stopped"
  /\ nextTask \in Tasks
  /\ g_carryOnFlag' = TRUE
  /\ g_stateFlag' = "running"
  /\ task' = startNextFuture(task, nextTask)
  /\ g_queueHead' = AsyncFuture(nextTask)
  /\ nextTask' = nextTask + 1
  /\ ctl' = [ctl EXCEPT !.op = "start", !.result = "ok", !.starts = @ + 1]
  /\ UNCHANGED <<g_currentEventBatchCount, g_queueAccessMutex, fifo, sent, now,
                 batch, rt, delivered, readLog, everStopped>>
  /\ UNCHANGED <<clientVars, auxVars>>

\* start() on a running queue: lock, startInternal() calls stopInternal()
StartTwice ==
  /\ ctl.pc = "idle"
  /\ ctl.starts < MaxStarts
  /\ g_queueAccessMutex = "free"
  /\ g_stateFlag = "running"
  /\ g_queueAccessMutex' = unique_lock("ctl")
  /\ ctl' = [ctl EXCEPT !.pc = "stopInternal", !.op = "start", !.result = "none",
                        !.starts = @ + 1]
  /\ UNCHANGED <<g_carryOnFlag, g_stateFlag, g_currentEventBatchCount, g_queueHead,
                 fifo, sent, now, task, batch, nextTask, rt,
                 delivered, readLog, everStopped>>
  /\ UNCHANGED <<clientVars, auxVars>>

\* stop(): lock the mutex for the full shutdown time
StopLock ==
  /\ ctl.pc = "idle"
  /\ g_queueAccessMutex = "free"
  /\ g_queueAccessMutex' = unique_lock("ctl")
  /\ ctl' = [ctl EXCEPT !.pc = "stopInternal", !.op = "stop", !.result = "none"]
  /\ UNCHANGED <<g_carryOnFlag, g_stateFlag, g_currentEventBatchCount, g_queueHead,
                 fifo, sent, now, task, batch, nextTask, rt,
                 delivered, readLog, everStopped>>
  /\ UNCHANGED <<clientVars, auxVars>>

\* stopInternal(): g_carryOnFlag = false, then sleep_for(2 * SHUTDOWN_POLL_PERIOD_MS)
StopSignal ==
  /\ ctl.pc = "stopInternal"
  /\ g_carryOnFlag' = FALSE
  /\ everStopped' = TRUE
  /\ ctl' = [ctl EXCEPT !.pc = "sleeping"]
  /\ UNCHANGED <<g_stateFlag, g_currentEventBatchCount, g_queueHead,
                 g_queueAccessMutex, fifo, sent, now, task, batch, nextTask, rt,
                 delivered, readLog>>
  /\ UNCHANGED <<clientVars, auxVars>>

\* stopInternal(): g_queueHead = FutureAlsaEvents{}.  Releasing the shared
\* state of a std::async future joins its task, and destroying a batch
\* releases its m_next: the step waits for every task the head owns.  Then
\* g_stateFlag = stopped, and the caller unlocks (stop) or throws (start).
StopClear ==
  /\ ctl.pc = "sleeping"
  /\ ReleaseJoins(g_queueHead)
  /\ LET chain == ReleasedBatches(g_queueHead)
     IN /\ batch' = [b \in Tasks |-> IF b \in Range(chain) THEN NoBatch ELSE batch[b]]
        /\ g_currentEventBatchCount' = g_currentEventBatchCount - Len(chain)
  /\ g_queueHead' = InvalidFuture
  /\ g_stateFlag' = "stopped"
  /\ g_queueAccessMutex' = "free"
  /\ ctl' = [ctl EXCEPT !.pc = IF ctl.op \in {"alsaStop", "alsaClose"}
                                THEN "alsaReturn" ELSE "idle",
                        !.result = IF ctl.op = "start" THEN "runtime_error"
                                   ELSE IF ctl.op = "stop" THEN "ok" ELSE "none"]
  /\ UNCHANGED <<g_carryOnFlag, fifo, sent, now, task, nextTask, rt,
                 delivered, readLog, everStopped>>
  /\ UNCHANGED <<clientVars, auxVars>>

\* ---------------------------------------------------------------- real-time thread
\* invokeClosureForeachEvent(): the closure is called for each event of the
\* list, front to back, with the batch's time stamp
RECURSIVE invokeClosureForeachEvent(_, _, _, _)
invokeClosureForeachEvent(eventsList, b, current, deadline) ==
  IF eventsList = <<>> THEN <<>>
  ELSE <<[ev |-> Head(eventsList), batch |-> b]>>
       \o invokeClosureForeachEvent(Tail(eventsList), b, current, deadline)

\* what a failing forEachClosure returns
ForEachError == 1

\* alsaClient::retrieve(), processClosure: forEachClosure is called unless
\* err is set.  (process() called directly has err = 0 and a closure that
\* returns nothing.)
DispatchesAlways(err) == TRUE
Dispatches(err) == err = 0

\* the calls of the caller's closure that the calls of processClosure make,
\* and the value of err they leave
RECURSIVE processClosure(_, _, _)
processClosure(calls, err, fail) ==
  IF calls = <<>> THEN [log |-> <<>>, err |-> err]
  ELSE IF Dispatches(err)
       THEN LET rest == processClosure(Tail(calls),
                                       IF Head(calls).ev = fail THEN ForEachError ELSE 0,
                                       fail)
            IN [log |-> <<Head(calls)>> \o rest.log, err |-> rest.err]
       ELSE processClosure(Tail(calls), err, fail)

\* ForEachMidiProc::operator(): the position in the buffer of a cycle of
\* nFrames frames at which an event with the given time stamp is written,
\* and the error that is logged when the position had to be moved.  (lead
\* is narrowed to int, which keeps every value below 2^31.)
ForEachMidiProc(nFrames, deadline, timeStamp) ==
  LET lead == deadline - timeStamp
      eventPos == nFrames - lead
  IN IF eventPos < 0 THEN [time |-> 0, log |-> "buffer underrun"]
     ELSE IF eventPos >= nFrames THEN [time |-> nFrames - 1, log |-> "buffer overrun"]
     ELSE [time |-> eventPos, log |-> "none"]

\* jack_midi_event_write() for each call of the closure, in a cycle that
\* ForEachJackPeriodProc has begun; timeStamp and deadline are kept beside
\* the entry
WriteEvents(p, calls, timeStamp, deadline) ==
  IF p.nFrames = 0 THEN p
  ELSE [p EXCEPT !.events = @ \o
          [i \in 1..Len(calls) |->
             LET w == ForEachMidiProc(p.nFrames, deadline, timeStamp)
             IN [ev |-> calls[i].ev, time |-> w.time, log |-> w.log,
                 timeStamp |-> timeStamp, deadline |-> deadline]]]

\* where the real-time thread goes on when process() returns: back into
\* alsaClient::retrieve(), or to its caller
AfterProcess == IF rt.op = "retrieve" THEN "retrieveReturn" ELSE "idle"

\* the real-time thread calls process(deadline, closure) and asks for the mutex
ProcessCall(d) ==
  /\ rt.pc = "idle"
  /\ rt' = [rt EXCEPT !.pc = "waiting", !.deadline = d, !.exit = "none",
                      !.op = "process", !.err = 0, !.fail = 0]
  /\ UNCHANGED <<g_carryOnFlag, g_stateFlag, g_currentEventBatchCount, g_queueHead,
                 g_queueAccessMutex, fifo, sent, now, task, batch, nextTask, ctl,
                 delivered, readLog, everStopped>>
  /\ UNCHANGED <<clientVars, auxVars>>

\* process(): the lock is obtained; a valid g_queueHead is moved into
\* processInternal(), with an invalid one the call returns at once
ProcessLock ==
  /\ rt.pc = "waiting"
  /\ g_queueAccessMutex = "free"
  /\ IF valid(g_queueHead)
     THEN /\ g_queueAccessMutex' = unique_lock("rt")
          /\ g_queueHead' = InvalidFuture
          /\ rt' = [rt EXCEPT !.pc = "walking", !.queueHeadInternal = g_queueHead,
                              !.n0 = Len(delivered), !.chain0 = ChainFrom(g_queueHead)]
     ELSE /\ rt' = [rt EXCEPT !.pc = AfterProcess, !.exit = "invalidHead"]
          /\ UNCHANGED <<g_queueAccessMutex, g_queueHead>>
  /\ UNCHANGED <<g_carryOnFlag, g_stateFlag, g_currentEventBatchCount,
                 fifo, sent, now, task, batch, nextTask, ctl,
                 delivered, readLog, everStopped>>
  /\ UNCHANGED <<clientVars, auxVars>>

\* process(): processInternal() has returned newHead; it is stored in
\* g_queueHead and the lock is released
ProcessReturn(newHead, why) ==
  /\ g_queueHead' = newHead
  /\ g_queueAccessMutex' = "free"
  /\ rt' = [rt EXCEPT !.pc = AfterProcess, !.queueHeadInternal = InvalidFuture,
                      !.exit = why,
                      !.n0 = 0, !.chain0 = <<>>]

\* processInternal(): one turn of `while (isReady(queueHeadInternal))`
ProcessStep ==
  /\ rt.pc = "walking"
  /\ LET h == rt.queueHeadInternal
     IN IF ~isReady(h)
        THEN \* the loop ends, the head goes back as it is
             /\ ProcessReturn(h, "notReady")
             /\ UNCHANGED <<g_currentEventBatchCount, batch, delivered>>
        ELSE IF h.kind = "async" /\ ~TaskResolved(h.id)
        THEN \* get() on a future that is not ready waits for the task
             /\ rt' = [rt EXCEPT !.pc = "blockedInGet"]
             /\ UNCHANGED <<g_queueHead, g_queueAccessMutex,
                            g_currentEventBatchCount, batch, delivered>>
        ELSE IF h.kind = "async" /\ task[h.id].pc = "failed"
        THEN \* get() throws std::runtime_error, which no handler catches:
             \* it leaves process(), which is noexcept, and std::terminate()
             \* ends the program
             /\ rt' = [rt EXCEPT !.pc = "terminated", !.exit = "runtime_error"]
             /\ UNCHANGED <<g_queueHead, g_queueAccessMutex,
                            g_currentEventBatchCount, batch, delivered>>
        ELSE IF h.kind = "async" /\ task[h.id].pc = "interrupted"
        THEN \* get() throws InterruptedException and leaves the future invalid
             /\ ProcessReturn(InvalidFuture, "interrupted")
             /\ UNCHANGED <<g_currentEventBatchCount, batch, delivered>>
        ELSE LET b == h.id
                 timestamp == batch[b].m_timeStamp
             IN IF NotYetDue(timestamp, rt.deadline)
                THEN \* the batch goes back into a future that is ready
                     /\ ProcessReturn(Repack(b), "handedBack")
                     /\ UNCHANGED <<g_currentEventBatchCount, batch, delivered>>
                ELSE \* the closure sees the events, grabNext(), ~AlsaEventBatch()
                     /\ LET calls == invokeClosureForeachEvent(batch[b].m_eventList, b,
                                                               timestamp, rt.deadline)
                            seen == processClosure(calls, rt.err, rt.fail)
                        IN /\ delivered' = delivered \o seen.log
                           /\ rt' = [rt EXCEPT !.queueHeadInternal = grabNext(b),
                                               !.err = seen.err]
                     /\ batch' = [batch EXCEPT ![b] = NoBatch]
                     /\ g_currentEventBatchCount' = g_currentEventBatchCount - 1
                     /\ UNCHANGED <<g_queueHead, g_queueAccessMutex>>
  /\ port' = IF delivered' = delivered THEN port
             ELSE WriteEvents(port, SubSeq(delivered', Len(delivered) + 1, Len(delivered')),
                              batch[rt.queueHeadInternal.id].m_timeStamp, rt.deadline)
  /\ UNCHANGED <<g_carryOnFlag, g_stateFlag, fifo, sent, now, task, nextTask, ctl,
                 readLog, everStopped>>
  /\ UNCHANGED <<clientVars, notPort>>

\* ---------------------------------------------------------------- alsaClient
queueVars == <<g_carryOnFlag, g_stateFlag, g_currentEventBatchCount, g_queueHead,
               g_queueAccessMutex, fifo, sent, now, task, batch, nextTask,
               delivered, readLog, everStopped>>

\* alsaClient::open(): only from closed, else BadStateException
AlsaOpen ==
  /\ ctl.pc = "idle"
  /\ g_stateAccessMutex = "free"
  /\ IF alsaClient_g_stateFlag # "closed"
     THEN /\ ctl' = [ctl EXCEPT !.op = "alsaOpen", !.result = "BadStateException"]
          /\ UNCHANGED alsaClient_g_stateFlag
     ELSE /\ ctl' = [ctl EXCEPT !.op = "alsaOpen", !.result = "ok"]
          /\ alsaClient_g_stateFlag' = "idle"
  /\ UNCHANGED <<g_stateAccessMutex, rt>>
  /\ UNCHANGED <<queueVars, auxVars>>

\* alsaClient::activate(): only from idle, else BadStateException; the
\* mutex is kept until activate() returns
AlsaActivate ==
  /\ ctl.pc = "idle"
  /\ ctl.starts < MaxStarts
  /\ g_stateAccessMutex = "free"
  /\ IF alsaClient_g_stateFlag # "idle"
     THEN /\ ctl' = [ctl EXCEPT !.op = "alsaActivate", !.result = "BadStateException"]
          /\ UNCHANGED g_stateAccessMutex
     ELSE /\ ctl' = [ctl EXCEPT !.op = "alsaActivate", !.result = "none",
                                !.pc = "activateInternal"]
          /\ g_stateAccessMutex' = "ctl"
  /\ UNCHANGED <<alsaClient_g_stateFlag, rt>>
  /\ UNCHANGED <<queueVars, auxVars>>

\* activateInternal(): receiverQueue::start() on the stopped queue, then
\* g_stateFlag = running and sleep_for(MONITOR_INTERVAL)
AlsaActivateInternal ==
  /\ ctl.pc = "activateInternal"
  /\ g_queueAccessMutex = "free"
  /\ g_stateFlag = "stopped"
  /\ nextTask \in Tasks
  /\ g_carryOnFlag' = TRUE
  /\ g_stateFlag' = "running"
  /\ task' = startNextFuture(task, nextTask)
  /\ g_queueHead' = AsyncFuture(nextTask)
  /\ nextTask' = nextTask + 1
  /\ alsaClient_g_stateFlag' = "running"
  /\ ctl' = [ctl EXCEPT !.pc = "activateSleep", !.starts = @ + 1]
  /\ UNCHANGED <<g_currentEventBatchCount, g_queueAccessMutex, fifo, sent, now,
                 batch, rt, delivered, readLog, everStopped, g_stateAccessMutex>>
  /\ UNCHANGED auxVars

\* activate(): the sleep is over, the mutex is released
AlsaActivateReturn ==
  /\ ctl.pc = "activateSleep"
  /\ g_stateAccessMutex' = "free"
  /\ ctl' = [ctl EXCEPT !.pc = "idle", !.result = "ok"]
  /\ UNCHANGED <<alsaClient_g_stateFlag, rt>>
  /\ UNCHANGED <<queueVars, auxVars>>

\* alsaClient::stop(): nothing unless running, else stopInternal() under the mutex
AlsaStop ==
  /\ ctl.pc = "idle"
  /\ g_stateAccessMutex = "free"
  /\ IF alsaClient_g_stateFlag # "running"
     THEN /\ ctl' = [ctl EXCEPT !.op = "alsaStop", !.result = "ok"]
          /\ UNCHANGED g_stateAccessMutex
     ELSE /\ ctl' = [ctl EXCEPT !.op = "alsaStop", !.result = "none",
                                !.pc = "alsaStopInternal"]
          /\ g_stateAccessMutex' = "ctl"
  /\ UNCHANGED <<alsaClient_g_stateFlag, rt>>
  /\ UNCHANGED <<queueVars, auxVars>>

\* alsaClient::close(): nothing when closed, else stopInternal() under the mutex
AlsaClose ==
  /\ ctl.pc = "idle"
  /\ g_stateAccessMutex = "free"
  /\ IF alsaClient_g_stateFlag = "closed"
     THEN /\ ctl' = [ctl EXCEPT !.op = "alsaClose", !.result = "ok"]
          /\ UNCHANGED g_stateAccessMutex
     ELSE /\ ctl' = [ctl EXCEPT !.op = "alsaClose", !.result = "none",
                                !.pc = "alsaStopInternal"]
          /\ g_stateAccessMutex' = "ctl"
  /\ UNCHANGED <<alsaClient_g_stateFlag, rt>>
  /\ UNCHANGED <<queueVars, auxVars>>

\* alsaClient::stopInternal(): receiverQueue::stop() locks the queue
AlsaStopInternal ==
  /\ ctl.pc = "alsaStopInternal"
  /\ g_queueAccessMutex = "free"
  /\ g_queueAccessMutex' = unique_lock("ctl")
  /\ ctl' = [ctl EXCEPT !.pc = "stopInternal"]
  /\ UNCHANGED <<g_carryOnFlag, g_stateFlag, g_currentEventBatchCount, g_queueHead,
                 fifo, sent, now, task, batch, nextTask, rt,
                 delivered, readLog, everStopped>>
  /\ UNCHANGED <<clientVars, auxVars>>

\* stop() / close(): the queue has stopped; the new state is set, the mutex released
AlsaReturn ==
  /\ ctl.pc = "alsaReturn"
  /\ alsaClient_g_stateFlag' = IF ctl.op = "alsaStop" THEN "idle" ELSE "closed"
  /\ g_stateAccessMutex' = "free"
  /\ ctl' = [ctl EXCEPT !.pc = "idle", !.result = "ok"]
  /\ UNCHANGED rt
  /\ UNCHANGED <<queueVars, auxVars>>

\* the value retrieve() returns when the client is not running
NotRunningResult == -1

\* the test by which retrieve() returns early
NotRunningIgnored(stateFlag) == FALSE
NotRunning(stateFlag) == stateFlag # "running"

\* the real-time thread calls alsaClient::retrieve(deadline, forEachClosure)
Retrieve(d) ==
  /\ rt.pc = "idle"
  /\ rt' = [rt EXCEPT !.pc = "retrieveWaiting", !.deadline = d, !.exit = "none",
                      !.op = "retrieve", !.err = 0, !.fail = 0]
  /\ UNCHANGED <<ctl, clientVars>>
  /\ UNCHANGED <<queueVars, auxVars>>

\* retrieve(deadline, forEachClosure) with a forEachClosure that returns
\* ForEachError when it is given event e
RetrieveFailing(d, e) ==
  /\ rt.pc = "idle"
  /\ rt' = [rt EXCEPT !.pc = "retrieveWaiting", !.deadline = d, !.exit = "none",
                      !.op = "retrieve", !.err = 0, !.fail = e]
  /\ UNCHANGED <<ctl, clientVars>>
  /\ UNCHANGED <<queueVars, auxVars>>

\* retrieve(): the mutex is obtained; unless the client is running the call
\* returns -1, else receiverQueue::process() is called
RetrieveLock ==
  /\ rt.pc = "retrieveWaiting"
  /\ g_stateAccessMutex = "free"
  /\ IF NotRunning(alsaClient_g_stateFlag)
     THEN /\ rt' = [rt EXCEPT !.pc = "idle", !.exit = "notRunning",
                              !.err = NotRunningResult]
          /\ UNCHANGED g_stateAccessMutex
     ELSE /\ rt' = [rt EXCEPT !.pc = "waiting"]
          /\ g_stateAccessMutex' = "rt"
  /\ UNCHANGED <<ctl, alsaClient_g_stateFlag>>
  /\ UNCHANGED <<queueVars, auxVars>>

\* retrieve(): process() has returned, err is returned and the mutex released
RetrieveReturn ==
  /\ rt.pc = "retrieveReturn"
  /\ g_stateAccessMutex' = "free"
  /\ rt' = [rt EXCEPT !.pc = "idle"]
  /\ UNCHANGED <<ctl, alsaClient_g_stateFlag>>
  /\ UNCHANGED <<queueVars, auxVars>>

\* ForEachJackPeriodProc::operator(): the server begins a cycle of nFrames
\* frames; the port's buffer is cleared and alsaClient::retrieve(deadline,
\* forEachMidiProc) is called
ForEachJackPeriodProc(nFrames, deadline) ==
  /\ rt.pc = "idle"
  /\ port' = [nFrames |-> nFrames, events |-> <<>>]
  /\ rt' = [rt EXCEPT !.pc = "retrieveWaiting", !.deadline = deadline, !.exit = "none",
                      !.op = "retrieve", !.err = 0, !.fail = 0]
  /\ UNCHANGED <<ctl, clientVars>>
  /\ UNCHANGED <<queueVars, notPort>>

\* ---------------------------------------------------------------- specification
Next ==
  \/ Send
  \/ Tick
  \/ \E t \in Tasks : ListenLoop(t)
  \/ \E t \in Tasks : ListenReturn(t)
  \/ Start
  \/ StartTwice
  \/ StopLock
  \/ StopSignal
  \/ StopClear
  \/ \E d \in Deadlines : ProcessCall(d)
  \/ ProcessLock
  \/ ProcessStep

Spec == Init /\ [][Next]_vars

\* the control thread drives the queue through alsaClient; the real-time
\* thread calls retrieve(), or process() as the unit tests do; the clock is
\* left standing (a deadline of 0 is not yet due, a later one is)
NextClient ==
  \/ Send
  \/ \E t \in Tasks : ListenLoop(t)
  \/ \E t \in Tasks : ListenReturn(t)
  \/ AlsaOpen
  \/ AlsaActivate
  \/ AlsaActivateInternal
  \/ AlsaActivateReturn
  \/ AlsaStop
  \/ AlsaClose
  \/ AlsaStopInternal
  \/ StopSignal
  \/ StopClear
  \/ AlsaReturn
  \/ \E d \in Deadlines : Retrieve(d)
  \/ RetrieveLock
  \/ RetrieveReturn
  \* a running client is drained by retrieve(); the queue is drained directly
  \* only while the client does not run
  \/ (alsaClient_g_stateFlag # "running" /\ \E d \in Deadlines : ProcessCall(d))
  \/ ProcessLock
  \/ ProcessStep

SpecClient == Init /\ [][NextClient]_vars

\* A client that was opened and activated and is drained by retrieve() with
\* closures that fail or do not
NextRetrieve ==
  \/ Send
  \/ Tick
  \/ \E t \in Tasks : ListenLoop(t)
  \/ \E t \in Tasks : ListenReturn(t)
  \/ AlsaOpen
  \/ AlsaActivate
  \/ AlsaActivateInternal
  \/ AlsaActivateReturn
  \/ \E d \in Deadlines : Retrieve(d)
  \/ \E d \in Deadlines, e \in Events : RetrieveFailing(d, e)
  \/ RetrieveLock
  \/ RetrieveReturn
  \/ ProcessLock
  \/ ProcessStep

SpecRetrieve == Init /\ [][NextRetrieve]_vars

\* The bridge's cycles: every retrieve() is that of ForEachJackPeriodProc
NextPort ==
  \/ Send
  \/ Tick
  \/ \E t \in Tasks : ListenLoop(t)
  \/ \E t \in Tasks : ListenReturn(t)
  \/ AlsaOpen
  \/ AlsaActivate
  \/ AlsaActivateInternal
  \/ AlsaActivateReturn
  \/ \E nFrames \in NFrames, d \in Deadlines : ForEachJackPeriodProc(nFrames, d)
  \/ RetrieveLock
  \/ RetrieveReturn
  \/ ProcessLock
  \/ ProcessStep

SpecPort == Init /\ [][NextPort]_vars

\* The queue with a sequencer whose calls can fail, the clock left
\* standing.  Nothing runs once std::terminate() has ended the program.
Alive == rt.pc # "terminated"

NextFault ==
  \/ Alive /\ Send
  \/ Alive /\ \E t \in Tasks : ListenLoop(t)
  \/ Alive /\ \E t \in Tasks : ListenReturn(t)
  \/ Alive /\ \E t \in Tasks, r \in AlsaErrors, k \in 0..MaxEvents : ListenError(t, r, k)
  \/ Alive /\ Start
  \/ Alive /\ StopLock
  \/ Alive /\ StopSignal
  \/ Alive /\ StopClear
  \/ Alive /\ \E d \in {now, now + 1} : ProcessCall(d)
  \/ Alive /\ ProcessLock
  \/ Alive /\ ProcessStep

SpecFault == Init /\ [][NextFault]_vars

\* The queue with its threads scheduled: a listener task gets its turn of
\* the loop (poll() times out after SHUTDOWN_POLL_PERIOD_MS) and its return,
\* and a stopInternal() that was entered goes on (its sleep_for() ends).
\* Nothing is assumed of the sender or the callers.  The time stamps have no
\* part in whether a call ends: the clock is left standing.
NextLive ==
  \/ Send
  \/ \E t \in Tasks : ListenLoop(t)
  \/ \E t \in Tasks : ListenReturn(t)
  \/ Start
  \/ StartTwice
  \/ StopLock
  \/ StopSignal
  \/ StopClear
  \/ \E d \in Deadlines : ProcessCall(d)
  \/ ProcessLock
  \/ ProcessStep

SpecLive ==
  /\ Init /\ [][NextLive]_vars
  /\ \A t \in Tasks : WF_vars(ListenLoop(t)) /\ WF_vars(ListenReturn(t))
  /\ WF_vars(StopSignal)
  /\ WF_vars(StopClear)

\* ---------------------------------------------------------------- durations
\* stopInternal() beside one listener that finds nothing to read, with time
\* in ms.  `late` counts the ms that passed while a thread was due to go on:
\* sleep_for() and poll() wait no less than asked, the scheduler may add to it.
MaxLate == 12
mainVars == <<queueVars, ctl, rt, clientVars>>

\* what the steps of one view leave alone: the queue and the other views
notTimed == <<mainVars, jack, conv, jc, ac, br, mon, jm, port>>
notJack == <<mainVars, timed, conv, jc, ac, br, mon, jm, port>>
notConv == <<mainVars, timed, jack, jc, ac, br, mon, jm, port>>
notJc == <<mainVars, timed, jack, conv, ac, br, mon, jm, port>>
notAc == <<mainVars, timed, jack, conv, jc, br, mon, jm, port>>
notBr == <<mainVars, timed, jack, conv, jc, ac, mon, jm, port>>
notMon == <<mainVars, timed, jack, conv, jc, ac, br, jm, port>>
notJm == <<timed, jack, conv, jc, ac, br, mon, port>>

\* a thread of `timed` is due: its wait is over and it has not gone on yet
TimedDue ==
  \/ timed.listener = "poll" /\ timed.pollLeft = 0
  \/ timed.pc = "sleep_for" /\ timed.sleepLeft = 0
  \/ timed.pc = "join" /\ timed.listener = "ended"

\* one ms passes
TimedTick ==
  /\ timed.pc # "returned"
  /\ TimedDue /\ timed.pc # "running" => timed.late < MaxLate
  /\ timed' = [timed EXCEPT
        !.pollLeft = IF @ > 0 THEN @ - 1 ELSE 0,
        !.sleepLeft = IF @ > 0 THEN @ - 1 ELSE 0,
        !.elapsed = IF timed.pc = "running" THEN 0 ELSE @ + 1,
        !.late = IF TimedDue /\ timed.pc # "running" THEN @ + 1 ELSE @]
  /\ UNCHANGED notTimed

\* listenForEvents(): poll(fds, fdsCount, SHUTDOWN_POLL_PERIOD_MS) returns 0;
\* the loop goes on while g_carryOnFlag, else InterruptedException is thrown
TimedPollTimeout ==
  /\ timed.listener = "poll"
  /\ timed.pollLeft = 0
  /\ timed' = IF WhileCarryOn(timed.g_carryOnFlag)
              THEN [timed EXCEPT !.pollLeft = SHUTDOWN_POLL_PERIOD_MS]
              ELSE [timed EXCEPT !.listener = "ended"]
  /\ UNCHANGED notTimed

\* stopInternal(): g_carryOnFlag = false;
\* sleep_for(milliseconds(2 * SHUTDOWN_POLL_PERIOD_MS)) begins
TimedStop ==
  /\ timed.pc = "running"
  /\ timed' = [timed EXCEPT !.pc = "sleep_for", !.g_carryOnFlag = FALSE,
                            !.sleepLeft = SleepTime(SHUTDOWN_POLL_PERIOD_MS),
                            !.elapsed = 0, !.late = 0]
  /\ UNCHANGED notTimed

\* stopInternal(): sleep_for() returns; g_queueHead = FutureAlsaEvents{} begins
TimedSleepOver ==
  /\ timed.pc = "sleep_for"
  /\ timed.sleepLeft = 0
  /\ timed' = [timed EXCEPT !.pc = "join"]
  /\ UNCHANGED notTimed

\* stopInternal(): the release of g_queueHead has joined the listener;
\* g_stateFlag = State::stopped, stop() returns
TimedJoin ==
  /\ timed.pc = "join"
  /\ timed.listener = "ended"
  /\ timed' = [timed EXCEPT !.pc = "returned", !.g_stateFlag = "stopped"]
  /\ UNCHANGED notTimed

NextTimed ==
  \/ TimedTick
  \/ TimedPollTimeout
  \/ TimedStop
  \/ TimedSleepOver
  \/ TimedJoin

SpecTimed == Init /\ [][NextTimed]_vars

\* ---------------------------------------------------------------- jackClient
\* newDeadline(): jack_last_frame_time(g_jackClientHandle)
newDeadlineOfNextCycle(frameTime) == frameTime + CycleLength
newDeadline(frameTime) == frameTime

\* newDeadline() and jackInternalCallback() write no counter:
\* g_resetTimingCount is after a cycle what it was before
resetTimingCountedEachCycle(count) == count + 1
resetTimingCounted(count) == count

\* the JACK server starts a cycle, k cycle lengths after the one before
\* (k > 1: cycles were skipped); the callback runs e frames into it
JackCycle(k, e) ==
  /\ jack.pc = "waiting"
  /\ jack.frameTime + k * CycleLength <= MaxFrameTime
  /\ jack' = [jack EXCEPT !.pc = "cycle",
                          !.frameTime = @ + k * CycleLength,
                          !.now = jack.frameTime + k * CycleLength + e,
                          !.steady = @ /\ k = 1]
  /\ UNCHANGED notJack

\* jackInternalCallback(): g_customCallback(nFrames, newDeadline())
JackInternalCallback ==
  /\ jack.pc = "cycle"
  /\ jack' = [jack EXCEPT !.pc = "waiting",
                          !.deadLine = newDeadline(jack.frameTime),
                          !.lastDeadline = jack.deadLine,
                          !.calls = IF @ < 2 THEN @ + 1 ELSE @,
                          !.g_resetTimingCount = resetTimingCounted(@),
                          !.resetsBefore = jack.g_resetTimingCount]
  /\ UNCHANGED notJack

NextJack ==
  \/ \E k \in 1..MaxSkip, e \in 0..(CycleLength - 1) : JackCycle(k, e)
  \/ JackInternalCallback

SpecJack == Init /\ [][NextJack]_vars

\* ---------------------------------------------------------------- conversions
\* frames2duration(frames) at the sample rate sr
ConvFrames2duration(sr, frames) ==
  /\ conv.pc = "none"
  /\ conv' = [conv EXCEPT !.pc = "duration", !.sampleRate = sr, !.frames = frames,
                          !.duration = frames2duration(frames, sr)]
  /\ UNCHANGED notConv

\* duration2frames() of the duration that frames2duration() gave
ConvDuration2frames ==
  /\ conv.pc = "duration"
  /\ conv' = [conv EXCEPT !.pc = "frames",
                          !.back = duration2frames(conv.duration, conv.sampleRate)]
  /\ UNCHANGED notConv

\* duration2frames(sysClock::SysTimeUnits(1s)) at the sample rate sr
ConvOneSecond(sr) ==
  /\ conv.pc = "none"
  /\ conv' = [conv EXCEPT !.pc = "second", !.sampleRate = sr,
                          !.duration = TICKS_PER_SECOND,
                          !.back = duration2frames(TICKS_PER_SECOND, sr)]
  /\ UNCHANGED notConv

NextConv ==
  \/ \E sr \in SampleRates : \E n \in (0..MaxFrames) \cup {sr} : ConvFrames2duration(sr, n)
  \/ ConvDuration2frames
  \/ \E sr \in SampleRates : ConvOneSecond(sr)

SpecConv == Init /\ [][NextConv]_vars

\* ---------------------------------------------------------------- jackClient calls
\* a call can be made: the caller is in no other call, the program runs
JcCallable == jc.pc = "idle" /\ ~jc.crashed

\* the call op, made in the state jc.g_stateFlag, has returned with result
JcReturned(j, op, result) ==
  [j EXCEPT !.pc = "idle", !.op = op, !.from = jc.g_stateFlag, !.result = result]

\* open(): `if (g_stateFlag != State::closed)` throws BadStateException
openBadStateNever(state) == FALSE
openBadState(state) == state # "closed"

\* activate(), onServerAbend(), registerProcessCallback(), newSenderPort():
\* `if (g_stateFlag != State::idle)` throws BadStateException
notIdleBadStateNever(state) == FALSE
notIdleBadState(state) == state # "idle"

\* clock(): `if (g_stateFlag == State::closed)` throws BadStateException
clockBadState(state) == state = "closed"

\* stopInternal(): `case State::closed: case State::idle: return;`
stopInternalWhenNotIdle(state) == state = "idle"
stopInternalNothingToDo(state) == state \in {"closed", "idle"}

\* open(clientName, startServer).  jack_client_open() gives no client when
\* the server is down and is not started.
JcOpen(startServer, started) ==
  /\ JcCallable
  /\ IF openBadState(jc.g_stateFlag)
     THEN jc' = JcReturned(jc, "open", "BadStateException")
     ELSE IF jc.server = "up" \/ (startServer /\ started)
     THEN jc' = [JcReturned(jc, "open", "ok") EXCEPT
                   !.server = "up",
                   !.g_jackClientHandle = "client", !.clientOpen = TRUE,
                   !.g_stateFlag = "idle"]
     ELSE jc' = [JcReturned(jc, "open", "ServerNotRunningException") EXCEPT
                   !.g_jackClientHandle = "null"]
  /\ UNCHANGED notJc

\* activate(): jack_activate() fails when the server is gone
JcActivate ==
  /\ JcCallable
  /\ IF notIdleBadState(jc.g_stateFlag)
     THEN jc' = JcReturned(jc, "activate", "BadStateException")
     ELSE IF jc.server = "down"
     THEN jc' = JcReturned(jc, "activate", "ServerException")
     ELSE jc' = [JcReturned(jc, "activate", "ok") EXCEPT !.g_stateFlag = "running"]
  /\ UNCHANGED notJc

\* onServerAbend(handler)
JcOnServerAbend ==
  /\ JcCallable
  /\ IF notIdleBadState(jc.g_stateFlag)
     THEN jc' = JcReturned(jc, "onServerAbend", "BadStateException")
     ELSE jc' = [JcReturned(jc, "onServerAbend", "ok") EXCEPT
                   !.g_onServerAbendHandler = TRUE]
  /\ UNCHANGED notJc

\* registerProcessCallback(processCallback): the callback is stored before
\* jack_set_process_callback() is tried
JcRegisterProcessCallback ==
  /\ JcCallable
  /\ IF notIdleBadState(jc.g_stateFlag)
     THEN jc' = JcReturned(jc, "registerProcessCallback", "BadStateException")
     ELSE jc' = [JcReturned(jc, "registerProcessCallback",
                            IF jc.server = "down" THEN "ServerException" ELSE "ok")
                 EXCEPT !.g_customCallback = TRUE]
  /\ UNCHANGED notJc

\* newSenderPort(portName): jack_port_register() fails when the server is gone
JcNewSenderPort ==
  /\ JcCallable
  /\ IF notIdleBadState(jc.g_stateFlag)
     THEN jc' = JcReturned(jc, "newSenderPort", "BadStateException")
     ELSE jc' = JcReturned(jc, "newSenderPort",
                           IF jc.server = "down" THEN "runtime_error" ELSE "ok")
  /\ UNCHANGED notJc

\* clock(): std::make_unique<JackClock>()
JcClock ==
  /\ JcCallable
  /\ IF clockBadState(jc.g_stateFlag)
     THEN jc' = JcReturned(jc, "clock", "BadStateException")
     ELSE jc' = [JcReturned(jc, "clock", "ok") EXCEPT !.hasClock = TRUE]
  /\ UNCHANGED notJc

\* stop(): lock, stopInternal() up to and with jack_deactivate()
JcStop ==
  /\ JcCallable
  /\ IF stopInternalNothingToDo(jc.g_stateFlag)
     THEN jc' = JcReturned(jc, "stop", "ok")
     ELSE jc' = [jc EXCEPT !.pc = "stopInternal_handler", !.op = "stop",
                           !.from = jc.g_stateFlag, !.result = "none"]
  /\ UNCHANGED notJc

\* close(): lock, return when closed, else stopInternal() as in stop()
JcClose ==
  /\ JcCallable
  /\ IF jc.g_stateFlag = "closed"
     THEN jc' = JcReturned(jc, "close", "ok")
     ELSE jc' = [jc EXCEPT !.pc = IF stopInternalNothingToDo(jc.g_stateFlag)
                                  THEN "close_client" ELSE "stopInternal_handler",
                           !.op = "close", !.from = jc.g_stateFlag, !.result = "none"]
  /\ UNCHANGED notJc

\* stopInternal(): g_onServerAbendHandler = nullptr; g_customCallback =
\* nullptr; g_stateFlag = State::idle, one assignment at a time
JcStopInternalStep ==
  /\ ~jc.crashed
  /\ \/ /\ jc.pc = "stopInternal_handler"
        /\ jc' = [jc EXCEPT !.g_onServerAbendHandler = FALSE,
                            !.pc = "stopInternal_callback"]
     \/ /\ jc.pc = "stopInternal_callback"
        /\ jc' = [jc EXCEPT !.g_customCallback = FALSE, !.pc = "stopInternal_state"]
     \/ /\ jc.pc = "stopInternal_state"
        /\ jc' = [jc EXCEPT !.g_stateFlag = "idle",
                            !.pc = IF jc.op = "close" THEN "close_client" ELSE "idle",
                            !.result = IF jc.op = "close" THEN "none" ELSE "ok"]
  /\ UNCHANGED notJc

\* close() after stopInternal(): jack_client_close(g_jackClientHandle);
\* g_jackClientHandle = nullptr; g_stateFlag = State::closed
JcCloseStep ==
  /\ ~jc.crashed
  /\ \/ /\ jc.pc = "close_client"
        /\ jc' = [jc EXCEPT !.clientOpen = FALSE, !.pc = "close_handle"]
     \/ /\ jc.pc = "close_handle"
        /\ jc' = [jc EXCEPT !.g_jackClientHandle = "null", !.pc = "close_state"]
     \/ /\ jc.pc = "close_state"
        /\ jc' = [jc EXCEPT !.g_stateFlag = "closed", !.pc = "idle", !.result = "ok"]
  /\ UNCHANGED notJc

\* the JACK server goes down; it tells the clients that are open by
\* the callback given to jack_on_shutdown()
JcServerDown ==
  /\ ~jc.crashed
  /\ jc.server = "up"
  /\ jc.downs < MaxDowns
  /\ jc.sd \in {"none", "done"}
  /\ jc' = [jc EXCEPT !.server = "down", !.downs = @ + 1,
                      !.sd = IF jc.clientOpen THEN "state" ELSE @,
                      !.abend = 0,
                      !.atDown = jc.pc,
                      !.flagAtDown = jc.g_stateFlag,
                      !.wasRunning = /\ jc.clientOpen
                                     /\ jc.g_stateFlag = "running"
                                     /\ jc.g_onServerAbendHandler]
  /\ UNCHANGED notJc

\* jackShutdownCallback(), which takes no lock: `if (g_stateFlag ==
\* State::running)`, `if (g_onServerAbendHandler)`, and
\* std::thread handlerThread(g_onServerAbendHandler), which copies the
\* handler as it is then: a thread on an empty std::function throws
\* std::bad_function_call, which ends the program
JcShutdownCallbackStep ==
  /\ ~jc.crashed
  /\ \/ /\ jc.sd = "state"
        /\ jc' = [jc EXCEPT !.sd = IF jc.g_stateFlag = "running"
                                   THEN "handler" ELSE "done"]
     \/ /\ jc.sd = "handler"
        /\ jc' = [jc EXCEPT !.sd = IF jc.g_onServerAbendHandler
                                   THEN "thread" ELSE "done"]
     \/ /\ jc.sd = "thread"
        /\ jc' = [jc EXCEPT !.sd = "done",
                            !.abend = IF jc.g_onServerAbendHandler THEN @ + 1 ELSE @,
                            !.crashed = ~jc.g_onServerAbendHandler]
  /\ UNCHANGED notJc

\* the frame time of the JACK server goes on
JcTick ==
  /\ ~jc.crashed
  /\ jc.frameTime < MaxClockTime
  /\ jc' = [jc EXCEPT !.frameTime = @ + 1]
  /\ UNCHANGED notJc

\* JackClock::now(), which takes no lock: LONG_MAX without a handle, else
\* jack_frame_time(g_jackClientHandle).  On a handle that close() has
\* already given to jack_client_close() the call is undefined: v is any
\* value then.
JcClockNow(v) ==
  /\ ~jc.crashed
  /\ jc.hasClock
  /\ v = IF jc.g_jackClientHandle = "null" THEN LONG_MAX
         ELSE IF jc.clientOpen THEN FrameTime(jc.frameTime)
         ELSE v
  /\ jc' = [jc EXCEPT !.prev = jc.now, !.now = v,
                      !.reads = IF @ < 2 THEN @ + 1 ELSE @]
  /\ UNCHANGED notJc

\* the calls of jackClient and a JACK server that can go down
NextJc ==
  \/ \E startServer \in BOOLEAN, started \in BOOLEAN : JcOpen(startServer, started)
  \/ JcActivate
  \/ JcOnServerAbend
  \/ JcRegisterProcessCallback
  \/ JcNewSenderPort
  \/ JcClock
  \/ JcStop
  \/ JcClose
  \/ JcStopInternalStep
  \/ JcCloseStep
  \/ JcServerDown
  \/ JcShutdownCallbackStep

SpecJc == Init /\ [][NextJc]_vars

\* the calls of jackClient and a JackClock that is read, the server staying up
NextJcClock ==
  \/ \E startServer \in BOOLEAN : JcOpen(startServer, TRUE)
  \/ JcActivate
  \/ JcClock
  \/ JcStop
  \/ JcClose
  \/ JcStopInternalStep
  \/ JcCloseStep
  \/ JcTick
  \/ \E v \in {FrameTime(t) : t \in 0..MaxClockTime} \cup {LONG_MAX} : JcClockNow(v)

SpecJcClock == Init /\ [][NextJcClock]_vars

\* ---------------------------------------------------------------- alsaClient, the session
\* the tests by which open(), newReceiverPort() and activate() refuse a call
alsaOpenBadState(state) == state # "closed"
alsaNotIdleBadState(state) == state # "idle"
portExistsIgnored(portId) == FALSE
portExists(portId) == portId # NULL_ID
clockEmpty(clock) == ~clock

\* a call has returned (or thrown): what it was, from where, with what
AcReturned(a, op, connectTo, clock, result) ==
  [a EXCEPT !.op = op, !.from = ac.g_stateFlag, !.connectTo = connectTo,
            !.clock = clock, !.result = result, !.call = 1 - @]

\* findPort(): the sender port a designation stands for, if there is one
findPort(designation) ==
  IF designation \in SenderPorts THEN designation ELSE NULL_PORT_ID

\* tryToConnect(): the port connected to, NULL_PORT_ID when nothing was asked
\* for, no port was found or snd_seq_connect_from() failed with err
tryToConnect(designation, err) ==
  IF designation = "" THEN NULL_PORT_ID
  ELSE IF findPort(designation) = NULL_PORT_ID THEN NULL_PORT_ID
  ELSE IF err THEN NULL_PORT_ID
  ELSE findPort(designation)

\* defaultConnectionsHandler(): the port connected from now on
defaultConnectionsHandler(a, connectTo, connectedTillNow, err) ==
  IF connectTo = "" THEN connectedTillNow
  ELSE IF a.g_portId = NULL_ID THEN connectedTillNow
  ELSE IF connectedTillNow # NULL_PORT_ID /\ connectedTillNow \in a.connections
       THEN connectedTillNow
  ELSE tryToConnect(connectTo, err)

\* receiverPortGetConnections(): nothing when closed or without a port
receiverPortGetConnections(a) ==
  IF a.g_stateFlag = "closed" THEN {}
  ELSE IF a.g_portId = NULL_ID THEN {}
  ELSE a.connections

\* alsaClient::open(clientName); err: the sequencer refuses
AcOpen(err) ==
  /\ ac' = IF alsaOpenBadState(ac.g_stateFlag)
           THEN AcReturned(ac, "open", "", FALSE, "BadStateException")
           ELSE IF err
           THEN AcReturned(ac, "open", "", FALSE, "runtime_error")
           ELSE AcReturned([ac EXCEPT !.g_portId = NULL_ID, !.g_stateFlag = "idle",
                                      !.ports = 0, !.connections = {}],
                           "open", "", FALSE, "ok")
  /\ UNCHANGED notAc

\* alsaClient::newReceiverPort(portName, connectTo); err: the sequencer
\* makes no port
AcNewReceiverPort(connectTo, err) ==
  /\ ac' = IF alsaNotIdleBadState(ac.g_stateFlag)
           THEN AcReturned(ac, "newReceiverPort", connectTo, FALSE, "BadStateException")
           ELSE IF portExists(ac.g_portId)
           THEN AcReturned(ac, "newReceiverPort", connectTo, FALSE, "ServerException")
           ELSE IF err
           THEN AcReturned([ac EXCEPT !.g_portId = NULL_ID],
                           "newReceiverPort", connectTo, FALSE, "runtime_error")
           ELSE AcReturned([ac EXCEPT !.g_portId = 0,
                                      !.ports = IF @ < 2 THEN @ + 1 ELSE @,
                                      !.g_connectTo = connectTo,
                                      !.g_onMonitorConnectionsHandler = TRUE],
                           "newReceiverPort", connectTo, FALSE, "ok")
  /\ UNCHANGED notAc

\* alsaClient::activate(clock): activateInternal() starts the monitor thread
AcActivate(clock) ==
  /\ ac' = IF alsaNotIdleBadState(ac.g_stateFlag)
           THEN AcReturned(ac, "activate", "", clock, "BadStateException")
           ELSE IF clockEmpty(clock)
           THEN AcReturned(ac, "activate", "", clock, "runtime_error")
           ELSE AcReturned([ac EXCEPT !.g_monitoringActive = TRUE,
                                      !.currentlyConnected = NULL_PORT_ID,
                                      !.g_stateFlag = "running"],
                           "activate", "", clock, "ok")
  /\ UNCHANGED notAc

\* alsaClient::stop(): nothing unless running
AcStop ==
  /\ ac' = IF ac.g_stateFlag # "running"
           THEN AcReturned(ac, "stop", "", FALSE, "ok")
           ELSE AcReturned([ac EXCEPT !.g_monitoringActive = FALSE,
                                      !.g_stateFlag = "idle"],
                           "stop", "", FALSE, "ok")
  /\ UNCHANGED notAc

\* alsaClient::close(): nothing when closed; the sequencer drops the port
\* and its connections with the client
AcClose ==
  /\ ac' = IF ac.g_stateFlag = "closed"
           THEN AcReturned(ac, "close", "", FALSE, "ok")
           ELSE AcReturned([ac EXCEPT !.g_monitoringActive = FALSE,
                                      !.connections = {},
                                      !.g_portId = NULL_ID,
                                      !.g_stateFlag = "closed"],
                           "close", "", FALSE, "ok")
  /\ UNCHANGED notAc

\* alsaClient::receiverPortGetConnections()
AcReceiverPortGetConnections ==
  /\ ac' = AcReturned([ac EXCEPT !.listed = receiverPortGetConnections(ac)],
                      "receiverPortGetConnections", "", FALSE, "ok")
  /\ UNCHANGED notAc

\* monitorLoop(): one pass of the monitor thread
AcMonitorLoop(err) ==
  /\ ac.g_monitoringActive
  /\ ac.g_onMonitorConnectionsHandler
  /\ LET connected == defaultConnectionsHandler(ac, ac.g_connectTo,
                                                ac.currentlyConnected, err)
     IN ac' = [ac EXCEPT !.currentlyConnected = connected,
                         !.connections = IF connected = NULL_PORT_ID THEN @
                                         ELSE @ \cup {connected}]
  /\ UNCHANGED notAc

\* another client removes the subscriptions of the receiver port
AcUnsubscribe ==
  /\ ac.connections # {}
  /\ ac' = [ac EXCEPT !.connections = {}]
  /\ UNCHANGED notAc

NextAc ==
  \/ \E err \in BOOLEAN : AcOpen(err)
  \/ \E connectTo \in Designations, err \in BOOLEAN : AcNewReceiverPort(connectTo, err)
  \/ \E clock \in BOOLEAN : AcActivate(clock)
  \/ AcStop
  \/ AcClose
  \/ AcReceiverPortGetConnections
  \/ \E err \in BOOLEAN : AcMonitorLoop(err)
  \/ AcUnsubscribe

SpecAc == Init /\ [][NextAc]_vars

\* ---------------------------------------------------------------- a2jmidi, the bridge
\* a2jmidi::open(): the calls it makes, in their order
StartUpJackFirst ==
  <<"jackClient::open", "jackClient::onServerAbend", "jackClient::newSenderPort",
    "jackClient::activate",
    "alsaClient::open", "alsaClient::newReceiverPort",
    "jackClient::registerProcessCallback", "alsaClient::activate">>
StartUp ==
  <<"jackClient::open", "jackClient::onServerAbend", "jackClient::newSenderPort",
    "alsaClient::open", "alsaClient::newReceiverPort",
    "jackClient::registerProcessCallback", "alsaClient::activate",
    "jackClient::activate">>

\* what a call of the start-up throws on the bridge b ("none": it returns);
\* err: the server or the sequencer refuses
BrThrows(b, call, err) ==
  CASE call = "jackClient::open" ->
         IF openBadState(b.jackState) THEN "BadStateException"
         ELSE IF ~(b.serverRunning \/ (b.startJack /\ ~err))
              THEN "ServerNotRunningException" ELSE "none"
    [] call = "jackClient::onServerAbend" ->
         IF notIdleBadState(b.jackState) THEN "BadStateException" ELSE "none"
    [] call = "jackClient::newSenderPort" ->
         IF notIdleBadState(b.jackState) THEN "BadStateException"
         ELSE IF err THEN "runtime_error" ELSE "none"
    [] call = "alsaClient::open" ->
         IF alsaOpenBadState(b.alsaState) THEN "BadStateException"
         ELSE IF err THEN "runtime_error" ELSE "none"
    [] call = "alsaClient::newReceiverPort" ->
         IF alsaNotIdleBadState(b.alsaState) THEN "BadStateException"
         ELSE IF portExists(b.g_portId) THEN "ServerException"
         ELSE IF err THEN "runtime_error" ELSE "none"
    [] call = "jackClient::registerProcessCallback" ->
         IF notIdleBadState(b.jackState) THEN "BadStateException"
         ELSE IF err THEN "ServerException" ELSE "none"
    [] call = "alsaClient::activate" ->
         IF clockBadState(b.jackState) THEN "BadStateException"
         ELSE IF alsaNotIdleBadState(b.alsaState) THEN "BadStateException"
         ELSE IF clockEmpty(~clockBadState(b.jackState)) THEN "runtime_error"
         ELSE "none"
    [] call = "jackClient::activate" ->
         IF notIdleBadState(b.jackState) THEN "BadStateException"
         ELSE IF err THEN "ServerException" ELSE "none"

\* what a call of the start-up leaves behind on the bridge b
BrEffect(b, call, err) ==
  LET thrown == BrThrows(b, call, err) IN
  CASE call = "jackClient::open" ->
         IF thrown = "none"
         THEN [b EXCEPT !.serverRunning = TRUE, !.jackState = "idle"] ELSE b
    [] call = "jackClient::onServerAbend" ->
         IF thrown = "none" THEN [b EXCEPT !.g_onServerAbendHandler = TRUE] ELSE b
    [] call = "jackClient::newSenderPort" ->
         IF thrown = "none" THEN [b EXCEPT !.jackPort = TRUE] ELSE b
    [] call = "alsaClient::open" ->
         IF thrown = "none"
         THEN [b EXCEPT !.g_portId = NULL_ID, !.alsaState = "idle"] ELSE b
    [] call = "alsaClient::newReceiverPort" ->
         IF thrown = "none" THEN [b EXCEPT !.g_portId = 0] ELSE b
    [] call = "jackClient::registerProcessCallback" ->
         IF thrown = "BadStateException" THEN b
         ELSE [b EXCEPT !.g_customCallback = TRUE]
    [] call = "alsaClient::activate" ->
         IF thrown = "none"
         THEN [b EXCEPT !.clock = TRUE, !.alsaState = "running"] ELSE b
    [] call = "jackClient::activate" ->
         IF thrown = "none" THEN [b EXCEPT !.jackState = "running"] ELSE b

\* run(clientNameProposal, connectTo, startJack) is entered
BrRun(connectTo, startJack, serverRunning) ==
  /\ br.phase = "main"
  /\ br' = [br EXCEPT !.phase = "open", !.connectTo = connectTo,
                      !.startJack = startJack, !.serverRunning = serverRunning]
  /\ UNCHANGED notBr

\* a2jmidi::open(): its next call; an exception leaves open() and run()
BrOpenStep(err) ==
  /\ br.phase = "open"
  /\ LET call == StartUp[br.step]
         thrown == BrThrows(br, call, err)
         after == BrEffect(br, call, err)
     IN br' = IF thrown # "none"
              THEN [after EXCEPT !.phase = "failed", !.failedAt = call,
                                 !.exception = thrown]
              ELSE IF br.step = Len(StartUp)
              THEN [after EXCEPT !.phase = "waiting"]
              ELSE [after EXCEPT !.step = @ + 1]
  /\ UNCHANGED notBr

\* the JACK server calls the process callback of a running client
BrProcessCallback ==
  /\ br.jackState = "running"
  /\ br.phase \in {"open", "waiting", "failed"}
  /\ br.callbacks < MaxCallbacks
  /\ br' = [br EXCEPT !.callbacks = @ + 1]
  /\ UNCHANGED notBr

\* SIGINT, SIGTERM or onJackServerAbend(): g_continue = false
BrEnd ==
  /\ br.phase = "waiting"
  /\ br.g_continue
  /\ br' = [br EXCEPT !.g_continue = FALSE]
  /\ UNCHANGED notBr

\* a2jmidi::close(): jackClient::close(), then alsaClient::close()
BrClose ==
  /\ br.phase \in {"waiting", "closing"}
  /\ ~br.g_continue
  /\ br' = IF br.phase = "waiting"
           THEN [br EXCEPT !.phase = "closing", !.jackState = "closed",
                           !.g_onServerAbendHandler = FALSE,
                           !.g_customCallback = FALSE, !.jackPort = FALSE]
           ELSE [br EXCEPT !.phase = "ended", !.alsaState = "closed",
                           !.g_portId = NULL_ID]
  /\ UNCHANGED notBr

NextBr ==
  \/ \E connectTo \in Designations, startJack \in BOOLEAN, serverRunning \in BOOLEAN :
       BrRun(connectTo, startJack, serverRunning)
  \/ \E err \in BOOLEAN : BrOpenStep(err)
  \/ BrProcessCallback
  \/ BrEnd
  \/ BrClose

SpecBr == Init /\ [][NextBr]_vars

\* ---------------------------------------------------------------- alsaClient, the monitor threads
\* The calls of alsaClient beside the monitor threads.  A call that throws
\* changes nothing here and is left out; the calls are made by one caller
\* at a time (g_stateAccessMutex), the monitor threads take no mutex.
MonitorAlive == {"test", "handler", "sleep"}

\* stopConnectionMonitoring(): g_monitoringActive = false; nobody is joined
stopConnectionMonitoring(threads) ==
  [m \in Monitors |-> IF threads[m].pc \in MonitorAlive
                      THEN [threads[m] EXCEPT !.told = TRUE]
                      ELSE threads[m]]

\* defaultConnectionsHandler(): whether it goes on to the sequencer
\* (receiverPortGetConnectionsInternal(), tryToConnect())
handlerUsesSequencer(connectTo, portId) == connectTo # "" /\ portId # NULL_ID

\* alsaClient::open()
MonOpen ==
  /\ mon.pc = "idle"
  /\ ~alsaOpenBadState(mon.g_stateFlag)
  /\ mon' = [mon EXCEPT !.g_portId = NULL_ID, !.g_sequencerHandle = "open",
                        !.g_stateFlag = "idle"]
  /\ UNCHANGED notMon

\* alsaClient::newReceiverPort(portName, connectTo)
MonNewReceiverPort(connectTo) ==
  /\ mon.pc = "idle"
  /\ ~alsaNotIdleBadState(mon.g_stateFlag)
  /\ ~portExists(mon.g_portId)
  /\ mon' = [mon EXCEPT !.g_portId = 0, !.g_connectTo = connectTo,
                        !.g_onMonitorConnectionsHandler = TRUE]
  /\ UNCHANGED notMon

\* alsaClient::activate(clock): activateConnectionMonitoring() sets the flag
\* and starts a detached thread on monitorLoop()
MonActivate ==
  /\ mon.pc = "idle"
  /\ ~alsaNotIdleBadState(mon.g_stateFlag)
  /\ mon.started < MaxMonitors
  /\ mon' = [mon EXCEPT !.g_monitoringActive = TRUE,
                        !.thread[mon.started + 1].pc = "test",
                        !.started = @ + 1,
                        !.g_stateFlag = "running"]
  /\ UNCHANGED notMon

\* alsaClient::stop(): nothing unless running
MonStop ==
  /\ mon.pc = "idle"
  /\ mon.g_stateFlag = "running"
  /\ mon' = [mon EXCEPT !.g_monitoringActive = FALSE,
                        !.thread = stopConnectionMonitoring(@),
                        !.g_stateFlag = "idle"]
  /\ UNCHANGED notMon

\* alsaClient::close(), up to snd_seq_close(g_sequencerHandle)
MonClose ==
  /\ mon.pc = "idle"
  /\ mon.g_stateFlag # "closed"
  /\ mon' = [mon EXCEPT !.g_monitoringActive = FALSE,
                        !.thread = stopConnectionMonitoring(@),
                        !.g_sequencerHandle = "closed",
                        !.pc = "close_reset"]
  /\ UNCHANGED notMon

\* alsaClient::close(): the globals are reset, the state is closed
MonCloseReset ==
  /\ mon.pc = "close_reset"
  /\ mon' = [mon EXCEPT !.g_portId = NULL_ID, !.g_sequencerHandle = "null",
                        !.g_stateFlag = "closed", !.pc = "idle"]
  /\ UNCHANGED notMon

\* monitorLoop(): `while (g_monitoringActive)` and `if (g_onMonitorConnectionsHandler)`
MonMonitorTest(m) ==
  /\ mon.thread[m].pc = "test"
  /\ mon' = IF ~mon.g_monitoringActive
            THEN [mon EXCEPT !.thread[m].pc = "ended"]
            ELSE [mon EXCEPT !.thread[m].pc = IF mon.g_onMonitorConnectionsHandler
                                              THEN "handler" ELSE "sleep",
                             !.thread[m].resumed = mon.thread[m].told]
  /\ UNCHANGED notMon

\* monitorLoop(): g_onMonitorConnectionsHandler(g_connectTo, currentlyConnected)
MonMonitorHandler(m) ==
  /\ mon.thread[m].pc = "handler"
  /\ mon' = [mon EXCEPT !.thread[m].pc = "sleep",
                        !.late = @ \/ mon.g_stateFlag # "running" \/ mon.pc # "idle",
                        !.undefined = @ \/ (/\ handlerUsesSequencer(mon.g_connectTo,
                                                                      mon.g_portId)
                                            /\ mon.g_sequencerHandle # "open")]
  /\ UNCHANGED notMon

\* monitorLoop(): sleep_for(MONITOR_INTERVAL) is over
MonMonitorWake(m) ==
  /\ mon.thread[m].pc = "sleep"
  /\ mon' = [mon EXCEPT !.thread[m].pc = "test"]
  /\ UNCHANGED notMon

NextMon ==
  \/ MonOpen
  \/ \E connectTo \in Designations : MonNewReceiverPort(connectTo)
  \/ MonActivate
  \/ MonStop
  \/ MonClose
  \/ MonCloseReset
  \/ \E m \in Monitors : MonMonitorTest(m)
  \/ \E m \in Monitors : MonMonitorHandler(m)
  \/ \E m \in Monitors : MonMonitorWake(m)

SpecMon == Init /\ [][NextMon]_vars

\* ---------------------------------------------------------------- the three mutexes
\* The main thread calls jackClient and alsaClient, the JACK server runs
\* the process callback on the real-time thread, the listeners run beside
\* both.  jm holds jackClient's g_stateFlag and the owner of jackClient's
\* g_stateAccessMutex; alsaClient's mutex and the queue's are those of the
\* alsaClient section.

\* jackClient::open(): only from closed, else BadStateException
JmOpen ==
  /\ ctl.pc = "idle"
  /\ jm.g_stateAccessMutex = "free"
  /\ IF jm.g_stateFlag # "closed"
     THEN /\ ctl' = [ctl EXCEPT !.op = "jackOpen", !.result = "BadStateException"]
          /\ UNCHANGED jm
     ELSE /\ ctl' = [ctl EXCEPT !.op = "jackOpen", !.result = "ok"]
          /\ jm' = [jm EXCEPT !.g_stateFlag = "idle"]
  /\ UNCHANGED <<queueVars, rt, clientVars, notJm>>

\* jackClient::activate(): only from idle, else BadStateException
JmActivate ==
  /\ ctl.pc = "idle"
  /\ jm.g_stateAccessMutex = "free"
  /\ IF jm.g_stateFlag # "idle"
     THEN /\ ctl' = [ctl EXCEPT !.op = "jackActivate", !.result = "BadStateException"]
          /\ UNCHANGED jm
     ELSE /\ ctl' = [ctl EXCEPT !.op = "jackActivate", !.result = "ok"]
          /\ jm' = [jm EXCEPT !.g_stateFlag = "running"]
  /\ UNCHANGED <<queueVars, rt, clientVars, notJm>>

\* jackClient::stop(): stopInternal() under the mutex; when running it
\* calls jack_deactivate(), which returns once no process callback runs
JmStop ==
  /\ ctl.pc = "idle"
  /\ jm.g_stateAccessMutex = "free"
  /\ IF jm.g_stateFlag # "running"
     THEN /\ ctl' = [ctl EXCEPT !.op = "jackStop", !.result = "ok"]
          /\ UNCHANGED jm
     ELSE /\ ctl' = [ctl EXCEPT !.op = "jackStop", !.result = "none",
                                !.pc = "jackDeactivate"]
          /\ jm' = [jm EXCEPT !.g_stateAccessMutex = "ctl"]
  /\ UNCHANGED <<queueVars, rt, clientVars, notJm>>

\* jackClient::close(): nothing when closed, else stopInternal() and
\* jack_client_close() under the mutex
JmClose ==
  /\ ctl.pc = "idle"
  /\ jm.g_stateAccessMutex = "free"
  /\ IF jm.g_stateFlag = "closed"
     THEN /\ ctl' = [ctl EXCEPT !.op = "jackClose", !.result = "ok"]
          /\ UNCHANGED jm
     ELSE IF jm.g_stateFlag = "idle"
     THEN /\ ctl' = [ctl EXCEPT !.op = "jackClose", !.result = "ok"]
          /\ jm' = [jm EXCEPT !.g_stateFlag = "closed"]
     ELSE /\ ctl' = [ctl EXCEPT !.op = "jackClose", !.result = "none",
                                !.pc = "jackDeactivate"]
          /\ jm' = [jm EXCEPT !.g_stateAccessMutex = "ctl"]
  /\ UNCHANGED <<queueVars, rt, clientVars, notJm>>

\* stopInternal(): jack_deactivate() has returned, the process callback is
\* not running any more; the new state is set and the mutex released
JmDeactivated ==
  /\ ctl.pc = "jackDeactivate"
  /\ rt.pc = "idle"
  /\ jm' = [g_stateFlag |-> IF ctl.op = "jackStop" THEN "idle" ELSE "closed",
            g_stateAccessMutex |-> "free"]
  /\ ctl' = [ctl EXCEPT !.pc = "idle", !.result = "ok"]
  /\ UNCHANGED <<queueVars, rt, clientVars, notJm>>

\* jackInternalCallback(): the server starts a cycle of the activated
\* client; the callback takes no lock of jackClient and goes into
\* alsaClient::retrieve()
JmProcessCallback(d) ==
  /\ jm.g_stateFlag = "running"
  /\ ctl.pc # "jackDeactivate"
  /\ Retrieve(d)

\* the steps by which a call that has begun goes on, in any thread
ThreadSteps ==
  \/ \E t \in Tasks : ListenLoop(t)
  \/ \E t \in Tasks : ListenReturn(t)
  \/ AlsaActivateInternal
  \/ AlsaActivateReturn
  \/ AlsaStopInternal
  \/ StopSignal
  \/ StopClear
  \/ AlsaReturn
  \/ JmDeactivated
  \/ RetrieveLock
  \/ RetrieveReturn
  \/ ProcessLock
  \/ ProcessStep

NextJm ==
  \/ Send
  \/ \E t \in Tasks : ListenLoop(t)
  \/ \E t \in Tasks : ListenReturn(t)
  \/ JmOpen
  \/ JmActivate
  \/ JmStop
  \/ JmClose
  \/ JmDeactivated
  \/ AlsaOpen
  \/ AlsaActivate
  \/ AlsaActivateInternal
  \/ AlsaActivateReturn
  \/ AlsaStop
  \/ AlsaClose
  \/ AlsaStopInternal
  \/ StopSignal
  \/ StopClear
  \/ AlsaReturn
  \/ \E d \in Deadlines : JmProcessCallback(d)
  \/ RetrieveLock
  \/ RetrieveReturn
  \/ ProcessLock
  \/ ProcessStep

SpecJm == Init /\ [][NextJm]_vars

\* ---------------------------------------------------------------- properties
\* the head of the chain, wherever it is at the moment: in g_queueHead, or
\* moved into processInternal()
CurrentHead == IF rt.pc \in {"walking", "blockedInGet"} THEN rt.queueHeadInternal
               ELSE g_queueHead

\* the batches a future leads to, made or still to be made by a task it owns
RECURSIVE QueuedBatches(_)
QueuedBatches(f) ==
  IF f.kind = "ready" THEN {f.id} \cup QueuedBatches(batch[f.id].m_next)
  ELSE IF f.kind = "async"
       THEN IF task[f.id].pc = "done"
            THEN {f.id} \cup QueuedBatches(batch[f.id].m_next)
            ELSE IF task[f.id].m_nextFuture # 0
                 THEN QueuedBatches(AsyncFuture(task[f.id].m_nextFuture))
                 ELSE {}
       ELSE {}

DeliveredOf(b) == {delivered[i].ev : i \in {j \in 1..Len(delivered) : delivered[j].batch = b}}
LiveListeners == {t \in Tasks : task[t].pc \in {"listening", "stamp"}}

\* the step by which a call of process() returns
ProcessReturns == rt.pc = "walking" /\ rt'.pc # "walking" /\ rt'.pc # "blockedInGet"
\* the step by which process() hands the head batch back
HandsBack == rt.pc = "walking" /\ rt'.exit = "handedBack"
\* the step by which process() passes the head batch to the closure
Consumes == rt.pc = "walking" /\ delivered' # delivered

C1_NoDuplicate ==
  \A i, j \in 1..Len(delivered) : i # j => delivered[i].ev # delivered[j].ev
C1_BatchOrder ==
  \A i, j \in 1..Len(delivered) : i < j => delivered[i].batch <= delivered[j].batch
C1_NoLoss ==
  ~everStopped =>
    \A b \in Tasks : task[b].pc = "done" =>
      IF batch[b].alive
      THEN b \in QueuedBatches(CurrentHead) /\ DeliveredOf(b) = {}
      ELSE DeliveredOf(b) = Range(readLog[b])
C1_DrainsAll ==
  (ProcessReturns /\ \A b \in Tasks : batch[b].alive => batch[b].m_timeStamp < rt.deadline)
    => ChainFrom(g_queueHead)' = <<>>

\* C1: without stop(), whatever the batches and the calls of process(): no
\* event reaches the closure twice, the events of an earlier batch reach it
\* before those of a later batch, every batch the listeners have made is
\* either still queued with none of its events delivered or has had exactly
\* its events delivered, and a call whose deadline exceeds every time stamp
\* leaves no resolved batch in the queue.
C1_ExactlyOnceInBatchOrder ==
  /\ [](C1_NoDuplicate /\ C1_BatchOrder /\ C1_NoLoss)
  /\ [][C1_DrainsAll]_vars

\* C1 witness: two batches, delivered by two calls with a growing deadline,
\* every event sent has reached the closure
C1_Witness ==
  /\ ~everStopped
  /\ Len(delivered) = MaxEvents
  /\ delivered[1].batch # delivered[Len(delivered)].batch
  /\ rt.pc = "walking" /\ rt.n0 > 0 /\ Len(delivered) > rt.n0

\* C2 as stated: a batch is handed back only when its time stamp is later
\* than the deadline (a batch stamped at the deadline is delivered).
C2_HandedBackOnlyWhenLater ==
  [][HandsBack => batch[rt.queueHeadInternal.id].m_timeStamp > rt.deadline]_vars

\* C2 amended: the head batch, when resolved, is consumed exactly when its
\* time stamp is before the deadline and handed back when it is at or after
\* the deadline; every event delivered is stamped before the deadline.
C2_ConsumedIffBeforeDeadline ==
  [][/\ HandsBack => batch[rt.queueHeadInternal.id].m_timeStamp >= rt.deadline
     /\ Consumes => batch[rt.queueHeadInternal.id].m_timeStamp < rt.deadline
     /\ (rt.pc = "walking" /\ isReady(rt.queueHeadInternal)
           /\ batch[rt.queueHeadInternal.id].alive /\ rt' # rt)
        => IF batch[rt.queueHeadInternal.id].m_timeStamp < rt.deadline
           THEN Consumes ELSE HandsBack]_vars

\* C2 witness: a batch stamped exactly at the deadline has been handed back
C2_Witness ==
  /\ rt.pc = "idle" /\ rt.exit = "handedBack"
  /\ g_queueHead.kind = "ready"
  /\ batch[g_queueHead.id].m_timeStamp = rt.deadline

\* the index of an event in a sequence without repetitions
IndexOf(seq, e) == CHOOSE i \in 1..Len(seq) : seq[i] = e

\* C3 as stated: the events of a batch reach the closure in the order in
\* which they were read from the sequencer.
C3_ArrivalOrderWithinBatch ==
  \A i, j \in 1..Len(delivered) :
    (i < j /\ delivered[i].batch = delivered[j].batch)
      => IndexOf(readLog[delivered[i].batch], delivered[i].ev)
           < IndexOf(readLog[delivered[i].batch], delivered[j].ev)

\* C4: the step that hands a batch back changes neither the batch (events,
\* time stamp, next) nor the batch count nor what was delivered, and the new
\* head is ready and resolves to that batch; a batch does not change while
\* it is alive; a later call whose deadline is late enough passes exactly
\* the events of the handed back batch, in the order of its list.
C4_HandedBackIntact ==
  [][/\ HandsBack =>
          LET b == rt.queueHeadInternal.id
          IN /\ isReady(g_queueHead)'
             /\ ChainFrom(g_queueHead)' # <<>>
             /\ Head(ChainFrom(g_queueHead)') = b
             /\ batch'[b] = batch[b]
             /\ g_currentEventBatchCount' = g_currentEventBatchCount
             /\ delivered' = delivered
     /\ \A b \in Tasks : (batch[b].alive /\ batch'[b].alive) => batch'[b] = batch[b]
     /\ (rt.pc = "walking" /\ rt.queueHeadInternal.kind = "ready" /\ rt' # rt
           /\ batch[rt.queueHeadInternal.id].m_timeStamp < rt.deadline)
        => LET b == rt.queueHeadInternal.id
           IN /\ Len(delivered') = Len(delivered) + Len(batch[b].m_eventList)
              /\ \A i \in 1..Len(batch[b].m_eventList) :
                   delivered'[Len(delivered) + i] =
                     [ev |-> batch[b].m_eventList[i], batch |-> b]
              /\ batch[b].m_eventList = retrieveEvents(readLog[b])]_vars

\* C4 witness: a batch of two events that was handed back is the head of a
\* later call whose deadline is late enough
C4_Witness ==
  /\ rt.pc = "walking"
  /\ rt.queueHeadInternal.kind = "ready"
  /\ Len(batch[rt.queueHeadInternal.id].m_eventList) = 2
  /\ batch[rt.queueHeadInternal.id].m_timeStamp < rt.deadline

\* C5: a call that finds every pending batch stamped later than its deadline
\* returns by its next step with nothing delivered and with the same
\* batches, unchanged and in the same order, in the queue; the call can be
\* repeated on the batch that was handed back.
C5_EarlyDrainIsNoOp ==
  [][(/\ rt.pc = "walking" /\ rt' # rt
      /\ Len(delivered) = rt.n0
      /\ ChainFrom(rt.queueHeadInternal) # <<>>
      /\ \A i \in 1..Len(ChainFrom(rt.queueHeadInternal)) :
           rt.deadline < batch[ChainFrom(rt.queueHeadInternal)[i]].m_timeStamp)
     => /\ ProcessReturns
        /\ Len(delivered') = rt.n0
        /\ ChainFrom(g_queueHead)' = ChainFrom(rt.queueHeadInternal)
        /\ UNCHANGED <<batch, g_currentEventBatchCount, g_stateFlag>>]_vars

\* C5 witness: the no-op is repeated: an early call finds the batch that an
\* earlier call has handed back
C5_Witness ==
  /\ rt.pc = "walking"
  /\ rt.queueHeadInternal.kind = "ready"
  /\ Len(delivered) = rt.n0
  /\ \A i \in 1..Len(ChainFrom(rt.queueHeadInternal)) :
       rt.deadline < batch[ChainFrom(rt.queueHeadInternal)[i]].m_timeStamp

C7_NeverWaitsForUnresolved ==
  /\ [](rt.pc # "blockedInGet")
  /\ [][(rt.pc = "walking" /\ rt' # rt /\ rt.queueHeadInternal.kind = "async"
           /\ ~TaskResolved(rt.queueHeadInternal.id))
        => /\ ProcessReturns
           /\ delivered' = delivered
           /\ g_queueHead' = rt.queueHeadInternal
           /\ UNCHANGED <<batch, g_currentEventBatchCount>>]_vars

\* C7 witness: a call on a freshly started queue that has received nothing
\* has returned
C7_Witness ==
  /\ rt.pc = "idle" /\ rt.exit = "notReady"
  /\ delivered = <<>> /\ sent = 0
  /\ g_queueHead.kind = "async"
  /\ task[g_queueHead.id].pc = "listening"

\* C8 as stated: a drain of a stopped queue reports success, also when it
\* is made through alsaClient::retrieve().
C8_DrainOfStoppedReportsSuccess ==
  [][(g_stateFlag = "stopped" /\ rt.pc \in {"waiting", "retrieveWaiting"}
        /\ rt'.pc = "idle")
     => rt'.err = 0]_vars

\* C8 amended: process() on a stopped queue returns normally with no call
\* of the closure and with state, head and batches unchanged; retrieve()
\* on a client that is not running (its queue is stopped) calls the closure
\* no more and changes no more, but returns -1.
C8_DrainOfStoppedChangesNothing ==
  /\ [](g_stateAccessMutex = "free" /\ alsaClient_g_stateFlag # "running"
          => g_stateFlag = "stopped")
  /\ [][(g_stateFlag = "stopped" /\ rt.pc \in {"waiting", "retrieveWaiting"}
           /\ rt' # rt)
        => /\ rt'.pc = "idle"
           /\ rt'.err = (IF rt.op = "retrieve" THEN NotRunningResult ELSE 0)
           /\ UNCHANGED <<delivered, g_stateFlag, g_queueHead, batch,
                          g_currentEventBatchCount, alsaClient_g_stateFlag>>]_vars

\* C8 witness: retrieve() has returned -1 on a stopped queue
C8_Witness ==
  /\ rt.pc = "idle" /\ rt.op = "retrieve" /\ rt.exit = "notRunning"
  /\ rt.err = NotRunningResult
  /\ g_stateFlag = "stopped"
  /\ delivered = <<>>

\* C9: the queue is stopped at first; start() on a stopped queue makes it
\* running with a valid head that is the future of the one listener alive;
\* whenever the queue is running and no call owns the mutex the head is valid.
C9_StartGivesOneHeadOneListener ==
  /\ g_stateFlag = "stopped"
  /\ [](g_stateFlag = "running" /\ g_queueAccessMutex = "free" => valid(g_queueHead))
  /\ [][(g_stateFlag = "stopped" /\ ctl'.op = "start" /\ ctl' # ctl)
        => /\ g_stateFlag' = "running"
           /\ ctl'.result = "ok"
           /\ g_queueHead'.kind = "async"
           /\ LiveListeners' = {g_queueHead'.id}]_vars

\* C9 witness: the queue runs after a second start(), batches have gone
\* through it
C9_Witness ==
  /\ g_stateFlag = "running" /\ g_queueAccessMutex = "free"
  /\ ctl.starts = 2 /\ ctl.result = "ok" /\ ctl.op = "start"
  /\ delivered # <<>>

\* C10: start() on a running queue ends with std::runtime_error; after it
\* the queue is stopped, its head is empty, no listener is alive and no
\* batch is left.
C10_StartTwiceFailsAndStops ==
  /\ [][(g_stateFlag = "running" /\ ctl'.op = "start" /\ ctl' # ctl /\ ctl.pc = "idle")
        => ctl'.pc = "stopInternal"]_vars
  /\ [][(ctl.op = "start" /\ ctl.pc = "sleeping" /\ ctl' # ctl)
        => ctl'.result = "runtime_error"]_vars
  /\ []((ctl.pc = "idle" /\ ctl.result = "runtime_error")
          => /\ g_stateFlag = "stopped"
             /\ ~valid(g_queueHead)
             /\ LiveListeners = {}
             /\ g_currentEventBatchCount = 0
             /\ \A b \in Tasks : ~batch[b].alive)

\* C10 witness: the second start() has failed while a batch was queued
C10_Witness ==
  /\ ctl.pc = "idle" /\ ctl.result = "runtime_error"
  /\ \E b \in Tasks : task[b].pc = "done" /\ DeliveredOf(b) = {}

\* stop() has returned and the control thread has made no call since
StopReturned == ctl.pc = "idle" /\ ctl.op = "stop" /\ ctl.result = "ok"

\* C11: when stop() has returned the queue is stopped, its head is empty
\* and no batch is left (the count is 0), whatever was delivered, handed
\* back or still pending; the steps of a stop() on a stopped queue change
\* neither the state nor the head nor a batch nor the count nor what was
\* delivered.
C11_StopDestroysEveryBatch ==
  /\ [](StopReturned
          => /\ g_stateFlag = "stopped"
             /\ ~valid(g_queueHead)
             /\ g_currentEventBatchCount = 0
             /\ \A b \in Tasks : ~batch[b].alive)
  /\ [][(ctl.op = "stop" /\ ctl.pc \in {"stopInternal", "sleeping"} /\ ctl' # ctl
           /\ g_stateFlag = "stopped")
        => UNCHANGED <<g_stateFlag, g_queueHead, g_currentEventBatchCount, batch,
                       task, delivered>>]_vars
  /\ [](g_currentEventBatchCount = Cardinality({b \in Tasks : batch[b].alive}))

\* C11 witness: stop() has returned on a queue of which one batch was
\* delivered and another one handed back and never delivered
C11_Witness ==
  /\ StopReturned
  /\ delivered # <<>>
  /\ rt.exit = "handedBack"
  /\ \E b \in Tasks : task[b].pc = "done" /\ DeliveredOf(b) = {}

\* C12: a stopInternal() that was entered by stop() or start() comes to its
\* end, wherever the listeners are; whenever the state is stopped no listener
\* task is alive (StopClear, which sets the state, waits for every task of
\* the session to end), so that none survives into a later start(), and
\* g_carryOnFlag is set only while the queue runs.
C12_StopTerminatesListenersFirst ==
  /\ [](g_stateFlag = "stopped" => LiveListeners = {})
  /\ [](g_carryOnFlag => g_stateFlag = "running")
  /\ (ctl.pc \in {"stopInternal", "sleeping"}) ~> (ctl.pc = "idle")

\* C12 witness: stop() sleeps while the listener at the tail, which has not
\* seen the signal yet, is in its poll wait with nothing to read
C12_Witness ==
  /\ ctl.pc = "sleeping" /\ ctl.op = "stop"
  /\ fifo = <<>>
  /\ \E t \in Tasks : task[t].pc = "listening" /\ TailFrom(g_queueHead) = AsyncFuture(t)

\* C13 as stated: stop(), called while the listener is in its poll wait,
\* has returned within 2 * SHUTDOWN_POLL_PERIOD_MS.
C13_StopReturnsWithinTwoPeriods ==
  timed.pc = "returned" => timed.elapsed <= 2 * SHUTDOWN_POLL_PERIOD_MS

\* C13 amended: the listener in its poll wait ends within one period after
\* the signal, so that the join finds it ended, and stop() returns when its
\* sleep of two periods is over: not before 2 * SHUTDOWN_POLL_PERIOD_MS
\* have passed, at that moment when no thread is late, and later than that
\* by what the threads are late.
C13_StopReturnsAfterTwoPeriods ==
  /\ timed.pc = "returned" =>
       /\ timed.elapsed >= 2 * SHUTDOWN_POLL_PERIOD_MS
       /\ timed.elapsed <= 2 * SHUTDOWN_POLL_PERIOD_MS + timed.late
       /\ timed.g_stateFlag = "stopped" /\ timed.listener = "ended"
  /\ (timed.pc # "running" /\ timed.listener = "poll")
       => timed.elapsed <= SHUTDOWN_POLL_PERIOD_MS + timed.late
  /\ (timed.pc = "join" /\ timed.listener = "poll")
       => timed.late >= SHUTDOWN_POLL_PERIOD_MS

\* C13 witness: stop() was called in the middle of the poll wait and has
\* returned later than two periods after the call, the listener having ended
\* in time
C13_Witness ==
  /\ timed.pc = "returned"
  /\ timed.elapsed > 2 * SHUTDOWN_POLL_PERIOD_MS
  /\ timed.late < SHUTDOWN_POLL_PERIOD_MS

\* stopInternal() can go on: its sleep can end or its join can return
TimedStopCanGoOn == ENABLED (TimedSleepOver \/ TimedJoin)

\* C14 as stated: when the wait of stopInternal() is over and the listener
\* has not ended, stop() is not kept waiting: it goes on (to report the
\* error) whatever the listener does.
C14_StopNotBlockedByLateListener ==
  (timed.pc \in {"sleep_for", "join"} /\ timed.sleepLeft = 0) => TimedStopCanGoOn

\* the listeners in the loop of listenForEvents(), polling or reading
Readers == {t \in Tasks : task[t].pc = "listening"}
\* the listeners that have read their events and started their successor
\* and have not returned their batch yet
Finishing == {t \in Tasks : task[t].pc = "stamp"}

\* the future at the far end of what a future leads to, the batches that
\* are still being made included
RECURSIVE FarTail(_)
FarTail(f) ==
  IF f.kind = "ready" \/ (f.kind = "async" /\ task[f.id].pc = "done")
  THEN FarTail(batch[f.id].m_next)
  ELSE IF f.kind = "async" /\ task[f.id].pc = "stamp"
       THEN FarTail(AsyncFuture(task[f.id].m_nextFuture))
       ELSE f

C16_ClosureErrorStopsDispatch ==
  /\ []((rt.op = "retrieve" /\ rt.err # 0 /\ rt.exit # "notRunning")
          => /\ rt.err = ForEachError
             /\ delivered # <<>>
             /\ delivered[Len(delivered)].ev = rt.fail)
  /\ []((rt.op = "retrieve" /\ rt.pc = "walking" /\ rt.err = 0)
          => \A i \in (rt.n0 + 1)..Len(delivered) : delivered[i].ev # rt.fail)
  /\ [][/\ (rt.pc = "walking" /\ rt.err # 0) => delivered' = delivered
        /\ (rt.pc \in {"walking", "retrieveReturn"} /\ rt.err # 0) => rt'.err = rt.err
        /\ Len(delivered') >= Len(delivered)
        /\ SubSeq(delivered', 1, Len(delivered)) = delivered]_vars

\* C16 witness: retrieve() has returned the error of a closure that failed
\* on the second event it was given
C16_Witness ==
  /\ rt.pc = "idle" /\ rt.op = "retrieve"
  /\ rt.err = ForEachError
  /\ Len(delivered) = 2
  /\ delivered[2].ev = rt.fail

\* C17: a listener whose ALSA call reported an error has ended: its future
\* is ready (with the exception), it started no successor and made no
\* batch; while it is the last task started no task listens; it stays
\* ended, reads nothing more from the sequencer, and the step in which it
\* failed started no task.
C17_SourceErrorEndsTheChain ==
  /\ [](\A t \in Tasks :
          task[t].alsaResult < 0
            => /\ task[t].pc = "failed"
               /\ isReady(AsyncFuture(t))
               /\ task[t].m_nextFuture = 0
               /\ ~batch[t].alive)
  /\ []((nextTask > 1 /\ task[nextTask - 1].pc = "failed")
          => \A u \in Tasks : task[u].pc # "listening")
  /\ [][\A t \in Tasks :
          /\ task[t].pc = "failed" => task'[t] = task[t] /\ readLog'[t] = readLog[t]
          /\ (task[t].pc # "failed" /\ task'[t].pc = "failed")
               => /\ nextTask' = nextTask
                  /\ \A u \in Tasks \ {t} : task'[u] = task[u]]_vars

\* C17 witness: the second listener of a running queue failed while it
\* was reading events, after the first one had delivered its batch
C17_Witness ==
  /\ g_stateFlag = "running" /\ g_carryOnFlag
  /\ \E t \in Tasks : /\ task[t].pc = "failed"
                      /\ readLog[t] # <<>>
                      /\ \E u \in Tasks : /\ task[u].pc = "done"
                                          /\ task[u].m_nextFuture = t

\* C18: when get() in processInternal() meets the error a listener ended
\* on, the queue is stopped cleanly: the state is stopped, no batch is
\* left, and the program was not ended by std::terminate().
C18_FatalErrorStopsCleanly ==
  rt.exit = "runtime_error"
    => /\ rt.pc # "terminated"
       /\ g_stateFlag = "stopped"
       /\ g_currentEventBatchCount = 0

\* the batches that a future of the queue can still hand out
Reachable == Range(ChainFrom(g_queueHead)) \cup Range(ChainFrom(rt.queueHeadInternal))

\* C19: grabNext() is called at most once for a batch.  A batch that is
\* alive still holds a valid m_next; the step that consumes a batch takes
\* that valid future as the new head and destroys the batch; a destroyed
\* batch is handed out by no future and never comes back, so there is no
\* second grabNext() that could yield a moved-from future.
C19_SuccessorTakenOnce ==
  /\ [](\A b \in Tasks :
          /\ batch[b].alive => valid(batch[b].m_next)
          /\ (task[b].pc = "done" /\ ~batch[b].alive) => b \notin Reachable)
  /\ [][\A b \in Tasks :
          /\ (task[b].pc = "done" /\ ~batch[b].alive) => ~batch'[b].alive
          /\ (rt.pc = "walking" /\ batch[b].alive /\ ~batch'[b].alive)
               => /\ rt.queueHeadInternal.id = b
                  /\ rt'.queueHeadInternal = batch[b].m_next
                  /\ valid(rt'.queueHeadInternal)]_vars

\* C19 witness: the walk has consumed a batch and holds the future that
\* grabNext() gave it, the one of the listener started after that batch
C19_Witness ==
  /\ rt.pc = "walking"
  /\ \E b \in Tasks : /\ task[b].pc = "done" /\ ~batch[b].alive
                      /\ task[b].m_nextFuture # 0
                      /\ rt.queueHeadInternal = AsyncFuture(task[b].m_nextFuture)

\* C20: the value newDeadline() gave the callback is lastDeadline +
\* cycleLength exactly when that lies in [now - cycleLength, now) and
\* nothing was counted; in every other case, the first call among them, it
\* is now less the frames elapsed in the cycle and one resynchronization
\* was counted.
C20_PlausibleDeadlineOrResync ==
  (jack.pc = "waiting" /\ jack.calls > 0)
    => LET tentative == jack.lastDeadline + CycleLength
           plausible == /\ jack.calls > 1
                        /\ jack.now - CycleLength <= tentative
                        /\ tentative < jack.now
       IN IF plausible
          THEN /\ jack.deadLine = tentative
               /\ jack.g_resetTimingCount = jack.resetsBefore
          ELSE /\ jack.deadLine = jack.now - (jack.now - jack.frameTime)
               /\ jack.g_resetTimingCount = jack.resetsBefore + 1

C22_DeadlineNotAfterNow ==
  (jack.pc = "waiting" /\ jack.calls > 0) => jack.deadLine <= jack.now

\* C22 witness: a callback that ran right at the start of its cycle, after
\* cycles were skipped: its deadline is the time of the call
C22_Witness ==
  /\ jack.pc = "waiting" /\ jack.calls = 2
  /\ ~jack.steady
  /\ jack.deadLine = jack.now

\* C23 as claimed: duration->frames is rounded, so that converting a
\* number of frames to a duration and back gives that number of frames.
C23_RoundTripGivesFrames ==
  conv.pc = "frames" => (conv.back.whole = conv.frames /\ conv.back.part = 0)

\* C23 amended: one second is sampleRate frames and sampleRate frames are
\* one second, exactly; a number of frames converted to a duration
\* (rounded to a tick) and back (not rounded) comes back as a fraction that
\* is off by no more than half a tick's worth of frames,
\* sampleRate / (2 * TICKS_PER_SECOND), and so rounds to the number.
C23_RoundTripWithinHalfTick ==
  /\ conv.pc = "second" => conv.back = [whole |-> conv.sampleRate, part |-> 0]
  /\ (conv.pc = "duration" /\ conv.frames = conv.sampleRate)
       => conv.duration = TICKS_PER_SECOND
  /\ conv.pc = "frames"
       => \/ conv.back.whole = conv.frames /\ 2 * conv.back.part <= conv.sampleRate
          \/ /\ conv.back.whole = conv.frames - 1
             /\ 2 * (TICKS_PER_SECOND - conv.back.part) <= conv.sampleRate

\* C23 witness: a number of frames that came back as a fraction below it
C23_Witness ==
  /\ conv.pc = "frames"
  /\ conv.frames > 0
  /\ conv.back.whole = conv.frames - 1
  /\ conv.back.part > 0

\* C24: g_stateFlag moves only along closed -> idle -> running and back:
\* when a call has returned, open() that succeeded was made in closed and
\* left idle, open() that found no server left closed, activate() that
\* succeeded was made in idle and left running, stop() left idle from running
\* and the state it found otherwise, close() left closed, and every other
\* return left the state the call was made in.
C24_StateFollowsClosedIdleRunning ==
  /\ [](jc.pc = "idle" =>
          CASE jc.op = "open" /\ jc.result = "ok"
                 -> jc.from = "closed" /\ jc.g_stateFlag = "idle"
            [] jc.op = "open" /\ jc.result = "ServerNotRunningException"
                 -> jc.from = "closed" /\ jc.g_stateFlag = "closed"
            [] jc.op = "activate" /\ jc.result = "ok"
                 -> jc.from = "idle" /\ jc.g_stateFlag = "running"
            [] jc.op = "stop"
                 -> jc.g_stateFlag = (IF jc.from = "running" THEN "idle" ELSE jc.from)
            [] jc.op = "close"
                 -> jc.g_stateFlag = "closed"
            [] OTHER -> jc.g_stateFlag = jc.from)
  /\ [][LET move == <<jc.g_stateFlag, jc'.g_stateFlag>>
        IN move \in {<<"closed", "closed">>, <<"idle", "idle">>, <<"running", "running">>,
                     <<"closed", "idle">>, <<"idle", "running">>, <<"running", "idle">>,
                     <<"idle", "closed">>}]_vars

\* C24 witness: stop() has brought a running client back to idle
C24_Witness ==
  /\ jc.pc = "idle" /\ jc.op = "stop" /\ jc.from = "running"
  /\ jc.g_stateFlag = "idle"
  /\ jc.result = "ok"

\* the state a call is documented for
JcDocumentedState(op, state) ==
  CASE op = "open" -> state = "closed"
    [] op \in {"activate", "registerProcessCallback", "onServerAbend", "newSenderPort"}
         -> state = "idle"
    [] op = "clock" -> state # "closed"
    [] OTHER -> TRUE

\* C25: a call has thrown BadStateException exactly when it was made in a
\* state it is not documented for, and the step in which it threw changed
\* neither the state nor the handle nor the two callbacks.
C25_WrongStateThrowsAndChangesNothing ==
  /\ []((jc.pc = "idle" /\ jc.op # "none")
          => (jc.result = "BadStateException" <=> ~JcDocumentedState(jc.op, jc.from)))
  /\ [][(/\ jc.pc = "idle" /\ jc'.pc = "idle"
         /\ jc'.result = "BadStateException"
         /\ <<jc'.op, jc'.from>> # <<jc.op, jc.from>>)
        => /\ jc'.g_stateFlag = jc.g_stateFlag
           /\ jc'.g_jackClientHandle = jc.g_jackClientHandle
           /\ jc'.clientOpen = jc.clientOpen
           /\ jc'.g_customCallback = jc.g_customCallback
           /\ jc'.g_onServerAbendHandler = jc.g_onServerAbendHandler]_vars

\* C25 witness: registerProcessCallback() was refused on a running client
\* whose callback and handler are registered
C25_Witness ==
  /\ jc.pc = "idle" /\ jc.op = "registerProcessCallback"
  /\ jc.result = "BadStateException" /\ jc.from = "running"
  /\ jc.g_stateFlag = "running"
  /\ jc.g_customCallback /\ jc.g_onServerAbendHandler

\* C26: the JACK server went down.  If the client was then running with a
\* handler registered, the handler has run exactly once when
\* jackShutdownCallback() is through; if stop() or close() had returned
\* before, it does not run; and no thread is started on an empty handler.
C26_AbendHandlerOnceIffRunning ==
  /\ (jc.sd = "done" /\ jc.wasRunning) => jc.abend = 1
  /\ (jc.atDown = "idle" /\ jc.flagAtDown # "running") => jc.abend = 0
  /\ ~jc.crashed

\* C27: of two values that a JackClock returned one after the other, the
\* later one is not the smaller one.
C27_ClockNeverGoesBack ==
  jc.reads >= 2 => TimeLE(jc.prev, jc.now)

\* C28: alsaClient follows closed -> idle -> running.  open() succeeds only
\* from closed, newReceiverPort() and activate() only from idle, at most one
\* receiver port is made per open session and activate() succeeds only with
\* a clock; stop() leads from running to idle and does nothing otherwise;
\* close() always ends in closed; a call made in a wrong state throws
\* BadStateException; a call that throws leaves the state as it was, and so
\* does the monitor thread.
C28_AlsaClientFollowsClosedIdleRunning ==
  [][LET from == ac.g_stateFlag
         to == ac'.g_stateFlag
         op == ac'.op
         result == ac'.result
     IN IF ac'.call = ac.call THEN to = from
        ELSE /\ op = "open" =>
                  /\ result = "ok" => from = "closed" /\ to = "idle"
                  /\ from # "closed" => result = "BadStateException"
                  /\ result # "ok" => to = from
             /\ op = "newReceiverPort" =>
                  /\ result = "ok" =>
                       from = "idle" /\ ac.g_portId = NULL_ID /\ ac'.ports <= 1
                  /\ from # "idle" => result = "BadStateException"
                  /\ to = from
             /\ op = "activate" =>
                  /\ result = "ok" => from = "idle" /\ to = "running" /\ ac'.clock
                  /\ from # "idle" => result = "BadStateException"
                  /\ result # "ok" => to = from
             /\ op = "stop" =>
                  /\ result = "ok"
                  /\ to = IF from = "running" THEN "idle" ELSE from
             /\ op = "close" => result = "ok" /\ to = "closed"
             /\ op = "receiverPortGetConnections" => to = from]_vars

\* a second port was refused in a session that has one, and the client runs
C28_Witness ==
  /\ ac.g_stateFlag = "running"
  /\ ac.ports = 1
  /\ ac.op = "activate"
  /\ ac.from = "running"
  /\ ac.result = "BadStateException"

\* C29: when newReceiverPort(portName, connectTo) returns and connectTo
\* designates an existing sender port, the receiver port is connected to it:
\* receiverPortGetConnections() is not empty; whatever connectTo is, the
\* port has been made.
C29_ConnectedWhenNewReceiverPortReturns ==
  [][(ac'.call # ac.call /\ ac'.op = "newReceiverPort" /\ ac'.result = "ok") =>
       /\ ac'.g_portId # NULL_ID
       /\ ac'.connectTo \in SenderPorts => receiverPortGetConnections(ac') # {}]_vars

\* C30: in the start-up of the bridge the JACK client runs (and process
\* callbacks are made) only when the sender port exists, the process
\* callback is registered and the ALSA client runs with the JACK clock; once
\* a call of the start-up has thrown, the JACK client does not run and no
\* process callback is made.
C30_JackActivatedLast ==
  /\ (br.jackState = "running" \/ br.callbacks > 0) =>
       /\ br.phase \in {"waiting", "closing", "ended"}
       /\ br.clock
       /\ br.jackState = "running" =>
            /\ br.jackPort
            /\ br.g_customCallback
            /\ br.alsaState = "running"
  /\ br.phase = "failed" => br.jackState # "running" /\ br.callbacks = 0

\* the bridge is up and the process callback has been called
C30_Witness ==
  /\ br.phase = "waiting"
  /\ br.jackState = "running"
  /\ br.alsaState = "running"
  /\ br.callbacks > 0

\* C31: a listener starts its successor before its own Link resolves.  The
\* step that resolves a Link to a batch finds the successor task started
\* already, and puts the successor's Link into the batch; so every batch a
\* consumer can obtain (every resolved batch of the chain) holds the Link
\* of a task that has been started, and that Link ends in the task that
\* listens for the following events while the queue runs: there is no gap.
C31_SuccessorStartedBeforeResolve ==
  /\ [](\A b \in Tasks :
          batch[b].alive =>
            /\ batch[b].m_next.kind = "async"
            /\ batch[b].m_next.id = task[b].m_nextFuture
            /\ task[batch[b].m_next.id].pc # "unborn")
  /\ []((g_carryOnFlag /\ ChainFrom(CurrentHead) # <<>>) =>
          LET tail == TailFrom(CurrentHead)
          IN tail.kind = "async" /\ task[tail.id].pc \in {"listening", "stamp", "failed"})
  /\ [][\A t \in Tasks :
          (task[t].pc # "done" /\ task'[t].pc = "done") =>
            /\ task[t].m_nextFuture \in Tasks
            /\ task[task[t].m_nextFuture].pc # "unborn"
            /\ batch'[t].m_next = AsyncFuture(task[t].m_nextFuture)]_vars

\* C31 witness: the walk holds a resolved batch whose successor listens
C31_Witness ==
  /\ rt.pc = "walking"
  /\ g_carryOnFlag
  /\ \E b \in Tasks : /\ rt.queueHeadInternal = AsyncFuture(b)
                      /\ task[b].pc = "done" /\ batch[b].alive
                      /\ task[task[b].m_nextFuture].pc = "listening"

C33_TimeStampsNeverDecrease ==
  \A b1 \in Tasks :
    batch[b1].alive =>
      \A b2 \in Range(ChainFrom(batch[b1].m_next)) :
        batch[b1].m_timeStamp <= batch[b2].m_timeStamp

\* C34: in a call of retrieve() whose forEachClosure has returned a value
\* other than 0, the walk goes on: each further batch that is resolved and
\* due is taken from the queue and destroyed, its successor becomes the
\* head, and none of its events is passed to forEachClosure.  Events are
\* passed on only from the batch that the step consumes, so what such a
\* batch held is not delivered by any later call.
C34_EventsAfterClosureErrorAreDropped ==
  [][/\ LET h == rt.queueHeadInternal
        IN (/\ rt.op = "retrieve" /\ rt.pc = "walking" /\ rt.err # 0
            /\ rt' # rt
            /\ isReady(h)
            /\ h.kind = "ready" \/ task[h.id].pc = "done"
            /\ ~NotYetDue(batch[h.id].m_timeStamp, rt.deadline))
             => /\ ~batch'[h.id].alive
                /\ g_currentEventBatchCount' = g_currentEventBatchCount - 1
                /\ rt'.pc = "walking"
                /\ rt'.queueHeadInternal = batch[h.id].m_next
                /\ delivered' = delivered
     /\ \A i \in (Len(delivered) + 1)..Len(delivered') :
          /\ batch[delivered'[i].batch].alive
          /\ ~batch'[delivered'[i].batch].alive
          /\ rt.err = 0
     /\ \A b \in Tasks : (task[b].pc = "done" /\ ~batch[b].alive) => ~batch'[b].alive]_vars

\* C34 witness: retrieve() has returned the error of the closure, which
\* failed on the event of the first batch; the second batch was taken from
\* the queue in the same call and its event was passed to nobody
C34_Witness ==
  /\ rt.pc = "idle" /\ rt.op = "retrieve" /\ rt.err = ForEachError
  /\ ~everStopped
  /\ \E b \in Tasks : /\ task[b].pc = "done" /\ ~batch[b].alive
                      /\ readLog[b] # <<>>
                      /\ DeliveredOf(b) = {}

\* the monitor threads that are monitoring: alive, and not told to stop or
\* going on in spite of it
Monitoring ==
  {m \in Monitors : /\ mon.thread[m].pc \in MonitorAlive
                    /\ ~mon.thread[m].told \/ mon.thread[m].resumed}

\* C35: at most one monitor loop runs at any time, and a monitor thread
\* that was told to stop does not go on monitoring after a later activate().
C35_OneMonitorLoop ==
  /\ Cardinality(Monitoring) <= 1
  /\ \A m \in Monitors : ~mon.thread[m].resumed

\* C36: once stop() or close() has returned (and while close() closes the
\* sequencer) no monitor thread is invoking the handler; the handler is
\* never invoked then, and it never uses a sequencer handle that is closed.
C36_NoHandlerAfterStopOrClose ==
  /\ (mon.g_stateFlag # "running" \/ mon.pc # "idle")
       => \A m \in Monitors : mon.thread[m].pc # "handler"
  /\ ~mon.late
  /\ ~mon.undefined

\* C37: no interleaving of the process callback, the main thread's calls
\* and the listeners ends in a deadlock.  The queue mutex is held only
\* inside alsaClient's mutex, the main thread holds jackClient's mutex
\* only while it holds neither of the other two, a thread that is inside
\* no call holds no mutex, whenever a call is under way some thread can go
\* on, and a listener that stop() waits for can always go on.
C37_NoDeadlock ==
  /\ g_queueAccessMutex = "rt" => g_stateAccessMutex = "rt"
  /\ g_queueAccessMutex = "ctl" => g_stateAccessMutex = "ctl"
  /\ jm.g_stateAccessMutex = "ctl" =>
       g_stateAccessMutex # "ctl" /\ g_queueAccessMutex # "ctl"
  /\ ctl.pc = "idle" =>
       /\ jm.g_stateAccessMutex = "free"
       /\ g_stateAccessMutex # "ctl" /\ g_queueAccessMutex # "ctl"
  /\ rt.pc = "idle" => g_stateAccessMutex # "rt" /\ g_queueAccessMutex # "rt"
  /\ (ctl.pc # "idle" \/ rt.pc # "idle") => ENABLED ThreadSteps
  /\ ctl.pc = "sleeping" =>
       \A t \in Tasks : task[t].pc = "listening" => ENABLED ListenLoop(t)

\* C37 witness: jackClient::close() waits in jack_deactivate() with
\* jackClient's mutex while the process callback walks the chain with the
\* other two
C37_Witness ==
  /\ ctl.pc = "jackDeactivate" /\ ctl.op = "jackClose"
  /\ jm.g_stateAccessMutex = "ctl"
  /\ rt.pc = "walking"
  /\ g_stateAccessMutex = "rt" /\ g_queueAccessMutex = "rt"

\* C38: every event written in a cycle of nFrames >= 1 frames is written
\* at nFrames - (deadline - timestamp) brought into [0, nFrames - 1]; that
\* position is below nFrames before it is brought into the range, so that
\* no buffer overrun is ever logged: the only correction is that of an
\* event older than one cycle, which is written at 0.
C38_OnlyTheLowerClampApplies ==
  \A i \in DOMAIN port.events :
    LET e == port.events[i]
        position == port.nFrames - (e.deadline - e.timeStamp)
    IN /\ port.nFrames >= 1
       /\ position < port.nFrames
       /\ e.time = IF position < 0 THEN 0 ELSE position
       /\ e.time \in 0..(port.nFrames - 1)
       /\ e.log # "buffer overrun"
       /\ e.log = "buffer underrun" <=> e.deadline - e.timeStamp > port.nFrames

\* C38 witness: one cycle has written an event older than the cycle at 0
\* and a later event at its own position
C38_Witness ==
  \E i, j \in DOMAIN port.events :
    /\ port.events[i].log = "buffer underrun" /\ port.events[i].time = 0
    /\ port.events[j].log = "none" /\ port.events[j].time > 0

\* C39: once close() has returned, jackClient being closed, neither a
\* process callback nor a server-abend handler is registered, whatever the
\* state was that close() was called from.
C39_NothingRegisteredAfterClose ==
  (jc.g_stateFlag = "closed" /\ jc.pc = "idle") =>
    ~jc.g_customCallback /\ ~jc.g_onServerAbendHandler

\* C40: whenever run() has returned, with 0 after the bridge was told to
\* end or with 1 after a failure of open(), jackClient and alsaClient are
\* both closed, so that neither a listener nor a monitor thread runs.
C40_BothClosedWhenRunReturns ==
  br.phase \in {"ended", "failed"} =>
    br.jackState = "closed" /\ br.alsaState = "closed"

====
